---- MODULE Spec2Model ----
(***************************************************************************)
(* A model of the flyghts flight-audit package: the orchestration service  *)
(* (AuditService), the Incheon adapter's construction and pagination       *)
(* (KoreaAirportSource), the status parser (parse_status) and the          *)
(* reference lookups (airlines / airports).                                *)
(*                                                                         *)
(* Python strings that the code only compares are TLA+ strings; strings    *)
(* the code takes apart (strip, upper, regular expressions) are sequences  *)
(* of one-character strings.  Calendar dates are day numbers.              *)
(***************************************************************************)
EXTENDS Integers, Sequences, FiniteSets, TLC

VARIABLES
    m,          \* one call of AuditService._matches_route: inputs and result
    q,          \* the frame of one AuditService.query call
    calls,      \* the fetch_flights calls the source has received, in order
    k,          \* a KoreaAirportSource: constructor outcome and fetch frame
    requests,   \* the HTTP requests issued by KoreaAirportSource, in order
    ps,         \* one call of parse_status: input and result
    ref,        \* the module globals of flyghts.reference and its data files
    prev,       \* the reference lookup before the last one
    last,       \* the last reference lookup: function, argument, result
    race,       \* two threads in their first reference lookups, and the globals they share
    hk,         \* one HKAirportSource.fetch_flights call and the conversion of its records
    rec,        \* one record on its way through an adapter's _parse_item and raw_to_flight
    stat,       \* one compute_stats call: the flights and the FlightStats returned
    datef,      \* one DateFilter: how it was built, and the dates iter_dates yields
    rstr,       \* one from_route_string call: its arguments and its outcome
    alias,      \* one field lookup of the Hong Kong adapter: the dict, the function and its result
    bulk,       \* one call of the bulk-file functions: its arguments and its outcome
    usd,        \* one run of dump_us_flights.main: the months, the frames kept, what was written
    dhk,        \* one run of dump_hk_flights.main: the futures collected so far, the reassembled records
    dko         \* runs of dump_korea_flights.main: the futures collected, the records, the output file and directory

vars == <<m, q, calls, k, requests, ps, ref, prev, last, race, hk, rec, stat, datef, rstr, alias, bulk, usd, dhk, dko>>

\* Python's None where the other values are plain strings.
None == "<None>"

\* Python truthiness of an Optional[str].
Truthy(s) == s # None /\ s # ""

(***************************************************************************)
(* Bounds                                                                  *)
(***************************************************************************)
\* Dates are the days 1..MaxDay.
MaxDay == 2

\* past_days is asked for at most MaxPastDays days.
MaxPastDays == 4

\* Route strings have at most MaxRouteLen characters.
MaxRouteLen == 5

\* The Incheon dump is run at most MaxRuns times.
MaxRuns == 2

\* A bulk-file run downloads at most MaxMonths months.
MaxMonths == 2

\* The width of a bulk-file time field, 'HHMM' (zfill(4)).
HHMM == 4

(***************************************************************************)
(* audit/models.py                                                         *)
(***************************************************************************)
\* DateFilter.end_date defaults to None; days are numbered from 1.
NoDate == 0

Days == 1..MaxDay

\* DateFilter(start_date, end_date).
DateFilters == [start_date : Days, end_date : Days \cup {NoDate}]

\* DateFilter.single(d).
single(d) == [start_date |-> d, end_date |-> d]

\* past_days with start = end - days: one day too many.
past_days_off_by_one(days, until, today) ==
    LET end == IF until # NoDate THEN until ELSE today
    IN  [start_date |-> end - days, end_date |-> end]

\* DateFilter.past_days(days, until), called on the day `today`.
past_days(days, until, today) ==
    LET end == IF until # NoDate THEN until ELSE today
    IN  [start_date |-> end - (days - 1), end_date |-> end]

\* RouteFilter(origin, destination, bidirectional).
RouteFilter(o, d, b) == [origin |-> o, destination |-> d, bidirectional |-> b]

\* The last date DateFilter.iter_dates yields: end_date or start_date.
iter_end(df) == IF df.end_date # NoDate THEN df.end_date ELSE df.start_date

\* DateFilter.iter_dates as the sequence it yields.
RECURSIVE iter_from(_, _)
iter_from(d, end) == IF d <= end THEN <<d>> \o iter_from(d + 1, end) ELSE <<>>

iter_dates(df) == iter_from(df.start_date, iter_end(df))

\* RawFlight / Flight: the fields the service reads or copies.
Raw(o, d, no, day) == [origin |-> o, destination |-> d, flight_no |-> no, date |-> day]

(***************************************************************************)
(* audit/service.py: AuditService._matches_route                           *)
(***************************************************************************)
\* The pairs list built from the filter.
route_pairs(route) ==
    IF route.bidirectional
    THEN << <<route.origin, route.destination>>, <<route.destination, route.origin>> >>
    ELSE << <<route.origin, route.destination>> >>

\* The for-loop over pairs: continue on a mismatch, return True otherwise.
RECURSIVE match_pairs(_, _)
match_pairs(flight, pairs) ==
    IF pairs = <<>> THEN FALSE
    ELSE LET orig == Head(pairs)[1]
             dest == Head(pairs)[2]
         IN  IF Truthy(orig) /\ flight.origin # orig THEN match_pairs(flight, Tail(pairs))
             ELSE IF Truthy(dest) /\ flight.destination # dest
                  THEN match_pairs(flight, Tail(pairs))
                  ELSE TRUE

\* A filter that never looks at the reversed pair.
matches_route_forward_only(flight, route) ==
    match_pairs(flight, << <<route.origin, route.destination>> >>)

matches_route(flight, route) == match_pairs(flight, route_pairs(route))

(***************************************************************************)
(* audit/service.py: AuditService.query                                    *)
(***************************************************************************)
\* source.raw_to_flight as the service sees it: the record's fields copied.
raw_to_flight(raw) ==
    [origin |-> raw.origin, destination |-> raw.destination,
     flight_no |-> raw.flight_no, date |-> raw.date]

\* The inner loop: convert every raw record, append the ones that match.
RECURSIVE filter_loop(_, _, _)
filter_loop(all_flights, raw_flights, route) ==
    IF raw_flights = <<>> THEN all_flights
    ELSE LET flight == raw_to_flight(Head(raw_flights))
         IN  filter_loop(IF matches_route(flight, route)
                         THEN Append(all_flights, flight)
                         ELSE all_flights,
                         Tail(raw_flights), route)

\* QueryResult(flights, query).
QueryResult(flights, route, df) ==
    [flights |-> flights, query |-> [route |-> route, date_filter |-> df]]

\* A loop that stops before the last date of the range.
loop_head_before_end(st) ==
    IF st.d < iter_end(st.date_filter)
    THEN [st EXCEPT !.pc = "fetch_dep", !.raw_flights = <<>>]
    ELSE [st EXCEPT !.pc = "returned",
                    !.returned = <<QueryResult(st.all_flights, st.route, st.date_filter)>>]

\* The head of "for d in date_filter.iter_dates()": the next date's body, or
\* the return statement after the loop.
loop_head(st) ==
    IF st.d <= iter_end(st.date_filter)
    THEN [st EXCEPT !.pc = "fetch_dep", !.raw_flights = <<>>]
    ELSE [st EXCEPT !.pc = "returned",
                    !.returned = <<QueryResult(st.all_flights, st.route, st.date_filter)>>]

\* A fetch whose error is swallowed and read as "no flights".
after_fetch_swallow(st, outcome, next) ==
    IF outcome.error # None
    THEN [st EXCEPT !.pc = next]
    ELSE [st EXCEPT !.pc = next, !.raw_flights = st.raw_flights \o outcome.flights]

\* A second fetch whose records go in front of the first one's.
after_fetch_prepend(st, outcome, next) ==
    IF outcome.error # None
    THEN [st EXCEPT !.pc = "raised", !.error = outcome.error]
    ELSE [st EXCEPT !.pc = next, !.raw_flights = outcome.flights \o st.raw_flights]

\* raw_flights.extend(self._source.fetch_flights(...)): an exception of the
\* source is not caught and leaves query; otherwise the records are appended.
after_fetch(st, outcome, next) ==
    IF outcome.error # None
    THEN [st EXCEPT !.pc = "raised", !.error = outcome.error]
    ELSE [st EXCEPT !.pc = next, !.raw_flights = st.raw_flights \o outcome.flights]

\* The end of one date's body: filter, then on to the next date.
after_filter(st) ==
    loop_head([st EXCEPT !.all_flights = filter_loop(st.all_flights, st.raw_flights, st.route),
                         !.d = st.d + 1])

(***************************************************************************)
(* audit/sources/korea_airport.py: KoreaAirportSource                      *)
(***************************************************************************)
\* A page of at most MaxPageItems items; a reported totalCount of at most MaxTotal.
MaxPageItems == 2
MaxTotal == 3

\* __init__: self.api_key = api_key or os.environ.get("KOREA_DATA_API_KEY", "").
\* env is the variable's value, None when it is unset.
resolve_api_key(api_key, env) ==
    IF Truthy(api_key) THEN api_key ELSE IF env = None THEN "" ELSE env

\* A constructor without the "if not self.api_key: raise".
construct_unchecked(st, api_key, env) ==
    [st EXCEPT !.pc = "ready", !.api_key = resolve_api_key(api_key, env),
               !.api_key_arg = api_key]

\* __init__: the instance exists only if the resolved key is not empty.
construct(st, api_key, env) ==
    IF ~Truthy(resolve_api_key(api_key, env))
    THEN [st EXCEPT !.pc = "config_error", !.error = "ValueError", !.api_key_arg = api_key]
    ELSE [st EXCEPT !.pc = "ready", !.api_key = resolve_api_key(api_key, env),
                    !.api_key_arg = api_key]

\* The endpoint fetch_flights picks.
endpoint_of(arrival) == IF arrival THEN "ARRIVALS_ENDPOINT" ELSE "DEPARTURES_ENDPOINT"

\* A fetch_flights that pages the passenger endpoint for cargo too.
fetch_flights_entry_no_cargo_check(st, flight_date, arrival, cargo) ==
    [st EXCEPT !.pc = "paging", !.flight_date = flight_date, !.arrival = arrival,
               !.cargo = cargo, !.page = 1, !.all_items = <<>>]

\* fetch_flights up to the call of _fetch_all_pages: cargo returns [] at once.
fetch_flights_entry(st, flight_date, arrival, cargo) ==
    IF cargo
    THEN [st EXCEPT !.pc = "returned", !.flight_date = flight_date, !.arrival = arrival,
                    !.cargo = cargo, !.flights = <<>>]
    ELSE [st EXCEPT !.pc = "paging", !.flight_date = flight_date, !.arrival = arrival,
                    !.cargo = cargo, !.page = 1, !.all_items = <<>>]

\* The params of one requests.get of _fetch_all_pages.
page_request(st) ==
    [endpoint |-> endpoint_of(st.arrival), serviceKey |-> st.api_key, pageNo |-> st.page]

\* item.get("flightId", ""): the first item of a page has none, the others
\* carry a flight number.
FlightIdOf(idx) == IF idx = 1 THEN "" ELSE "KE094"

\* The n items a page carries: item i of page p.
RECURSIVE ItemsOf(_, _)
ItemsOf(p, n) ==
    IF n = 0 THEN <<>>
    ELSE Append(ItemsOf(p, n - 1), [page |-> p, idx |-> n, flightId |-> FlightIdOf(n)])

\* The shapes of body["items"]: missing, None or "" ("missing"); {"item": [...]}
\* ("dict_list"); {"item": {...}} ("dict_one"); a dict without "item"
\* ("dict_noitem"); a bare list ("list"); any other value ("scalar").
\* totalCount is absent, an integer, or a string int() rejects ("bad").
TotalCounts == {[kind |-> "absent", val |-> 0], [kind |-> "bad", val |-> 0]}
               \cup {[kind |-> "int", val |-> v] : v \in 0..MaxTotal}

PageContents ==
    {[wrapper |-> w, n |-> n, totalCount |-> t] :
        w \in {"dict_list", "list"}, n \in 0..MaxPageItems, t \in TotalCounts}
    \cup {[wrapper |-> "dict_one", n |-> 1, totalCount |-> t] : t \in TotalCounts}
    \cup {[wrapper |-> w, n |-> 0, totalCount |-> t] :
        w \in {"missing", "dict_noitem", "scalar"}, t \in TotalCounts}

TransportErrors == {"HTTPError", "Timeout", "JSONDecodeError"}

\* What one requests.get gives: an exception, or a decoded page.
PageOutcomes == {[error |-> e, content |-> [wrapper |-> "missing", n |-> 0,
                                            totalCount |-> [kind |-> "absent", val |-> 0]]] :
                    e \in TransportErrors}
                \cup {[error |-> None, content |-> c] : c \in PageContents}

\* Lines 90-100: the page's items as a list, whatever shape they came in.
extract_items(content, p) ==
    CASE content.wrapper = "missing" -> <<>>
      [] content.wrapper = "dict_list" -> ItemsOf(p, content.n)
      [] content.wrapper = "dict_one" -> <<ItemsOf(p, 1)[1]>>
      [] content.wrapper = "dict_noitem" -> <<>>
      [] content.wrapper = "list" -> ItemsOf(p, content.n)
      [] OTHER -> <<>>

\* int(body.get("totalCount", 0)).
total_count(content) ==
    IF content.totalCount.kind = "absent" THEN 0 ELSE content.totalCount.val

\* One pass of the while-loop without "if not items: break".
page_step_no_empty_break(st, outcome) ==
    IF outcome.error # None
    THEN [st EXCEPT !.pc = "raised", !.error = outcome.error]
    ELSE LET items == extract_items(outcome.content, st.page)
             acc == st.all_items \o items
         IN  IF outcome.content.totalCount.kind = "bad"
             THEN [st EXCEPT !.pc = "raised", !.error = "ValueError"]
             ELSE IF Len(acc) >= total_count(outcome.content)
                  THEN [st EXCEPT !.pc = "pages_done", !.all_items = acc]
                  ELSE [st EXCEPT !.all_items = acc, !.page = st.page + 1]

\* One pass of the while-loop of _fetch_all_pages, after requests.get.
page_step(st, outcome) ==
    IF outcome.error # None
    THEN [st EXCEPT !.pc = "raised", !.error = outcome.error]
    ELSE LET items == extract_items(outcome.content, st.page)
             acc == st.all_items \o items
         IN  IF items = <<>>
             THEN [st EXCEPT !.pc = "pages_done"]
             ELSE IF outcome.content.totalCount.kind = "bad"
                  THEN [st EXCEPT !.pc = "raised", !.error = "ValueError", !.all_items = acc]
                  ELSE IF Len(acc) >= total_count(outcome.content)
                       THEN [st EXCEPT !.pc = "pages_done", !.all_items = acc]
                       ELSE [st EXCEPT !.all_items = acc, !.page = st.page + 1]

\* RawFlight(...) as _parse_item calls it: the keywords operating_flight_no
\* and operating_airline are no fields of the dataclass, and its __init__
\* raises TypeError.
RawFlightFields ==
    {"origin", "destination", "flight_no", "airline", "scheduled_time", "status", "date",
     "gate", "terminal", "cargo"}

ParseItemKeywords == RawFlightFields \cup {"operating_flight_no", "operating_airline"}

\* _parse_item: None for an item without a flightId, the RawFlight otherwise.
parse_item(item, flight_date, arrival) ==
    IF item.flightId = "" THEN [kind |-> "none", error |-> None]
    ELSE IF ParseItemKeywords \subseteq RawFlightFields
         THEN [kind |-> "raw", error |-> None]
         ELSE [kind |-> "raise", error |-> "TypeError"]

\* The loop of fetch_flights over all_items: the flights appended so far, or
\* the exception of the first item that raises.
RECURSIVE parse_loop(_, _, _, _)
parse_loop(items, flights, flight_date, arrival) ==
    IF items = <<>> THEN [error |-> None, flights |-> flights]
    ELSE LET raw == parse_item(Head(items), flight_date, arrival)
         IN  IF raw.kind = "raise" THEN [error |-> raw.error, flights |-> flights]
             ELSE parse_loop(Tail(items),
                             IF raw.kind = "raw" THEN Append(flights, Head(items)) ELSE flights,
                             flight_date, arrival)

\* fetch_flights after _fetch_all_pages has returned.
parse_items(st) ==
    LET out == parse_loop(st.all_items, <<>>, st.flight_date, st.arrival)
    IN  IF out.error # None
        THEN [st EXCEPT !.pc = "raised", !.error = out.error]
        ELSE [st EXCEPT !.pc = "returned", !.flights = out.flights]

(***************************************************************************)
(* Strings as sequences of characters                                      *)
(***************************************************************************)
UpperLetters == <<"A", "B", "C", "D", "E", "F", "G", "H", "I", "J", "K", "L", "M",
                  "N", "O", "P", "Q", "R", "S", "T", "U", "V", "W", "X", "Y", "Z">>
LowerLetters == <<"a", "b", "c", "d", "e", "f", "g", "h", "i", "j", "k", "l", "m",
                  "n", "o", "p", "q", "r", "s", "t", "u", "v", "w", "x", "y", "z">>
DigitChars == <<"0", "1", "2", "3", "4", "5", "6", "7", "8", "9">>

\* The whitespace str.strip() removes and \s matches.
Whitespace == {" ", "\t"}

IndexIn(c, seq) == CHOOSE i \in 1..Len(seq) : seq[i] = c
IsIn(c, seq) == \E i \in 1..Len(seq) : seq[i] = c

lower_char(c) == IF IsIn(c, UpperLetters) THEN LowerLetters[IndexIn(c, UpperLetters)] ELSE c
upper_char(c) == IF IsIn(c, LowerLetters) THEN UpperLetters[IndexIn(c, LowerLetters)] ELSE c

\* str.lower() and str.upper().
lower(s) == [i \in 1..Len(s) |-> lower_char(s[i])]
upper(s) == [i \in 1..Len(s) |-> upper_char(s[i])]

\* str.strip().
RECURSIVE lstrip(_)
lstrip(s) == IF s # <<>> /\ Head(s) \in Whitespace THEN lstrip(Tail(s)) ELSE s
RECURSIVE rstrip(_)
rstrip(s) == IF s # <<>> /\ s[Len(s)] \in Whitespace THEN rstrip(SubSeq(s, 1, Len(s) - 1)) ELSE s
strip(s) == rstrip(lstrip(s))

\* The slice s[i-1:j] of Python: positions i..j, cut at the end of s.
slice(s, i, j) ==
    LET hi == IF j < Len(s) THEN j ELSE Len(s)
    IN  IF hi < i THEN <<>> ELSE [x \in 1..(hi - i + 1) |-> s[i + x - 1]]

\* The character at position i, "" past the end.
At(s, i) == IF i \in 1..Len(s) THEN s[i] ELSE ""
IsDigit(c) == IsIn(c, DigitChars)

\* int() of a string of digits.
RECURSIVE int_of(_)
int_of(s) == IF s = <<>> THEN 0
             ELSE 10 * int_of(SubSeq(s, 1, Len(s) - 1)) + (IndexIn(s[Len(s)], DigitChars) - 1)

\* format(n, "0<w>d"): the decimal digits of n, zero-padded to width w.
RECURSIVE digits_of(_)
digits_of(n) == IF n < 10 THEN <<DigitChars[n + 1]>>
                ELSE Append(digits_of(n \div 10), DigitChars[(n % 10) + 1])
RECURSIVE zero_pad(_, _)
zero_pad(s, w) == IF Len(s) >= w THEN s ELSE zero_pad(<<"0">> \o s, w)
format_d(n, w) == zero_pad(digits_of(n), w)

\* Python's None where the other values are character sequences.
NoneS == <<"<None>">>

(***************************************************************************)
(* audit/models.py: RouteFilter.from_route_string                          *)
(***************************************************************************)
\* str.split(sep) for a one-character separator: the pieces between the
\* separators, one more than there are separators.
RECURSIVE split(_, _)
split(s, sep) ==
    IF ~IsIn(sep, s) THEN <<s>>
    ELSE LET i == CHOOSE x \in 1..Len(s) : s[x] = sep /\ \A y \in 1..(x - 1) : s[y] # sep
         IN  <<slice(s, 1, i - 1)>> \o split(slice(s, i + 1, Len(s)), sep)

\* from_route_string that keeps the whitespace around the two codes.
from_route_string_no_strip(route, bidirectional) ==
    LET parts == split(upper(route), "-")
    IN  IF Len(parts) # 2 THEN [raised |-> "ValueError", filter |-> <<>>]
        ELSE [raised |-> None,
              filter |-> <<RouteFilter(parts[1], parts[2], bidirectional)>>]

\* RouteFilter.from_route_string(route, bidirectional): the filter, or the
\* ValueError("Invalid route format: ...") raised.
from_route_string(route, bidirectional) ==
    LET parts == split(upper(route), "-")
    IN  IF Len(parts) # 2 THEN [raised |-> "ValueError", filter |-> <<>>]
        ELSE [raised |-> None,
              filter |-> <<RouteFilter(strip(parts[1]), strip(parts[2]), bidirectional)>>]
(***************************************************************************)
(* reference/status.py: parse_status                                       *)
(***************************************************************************)
\* The alternation (Dep|Arr|At gate) under re.IGNORECASE: the length of the
\* alternative that matches at the start of s, 0 if none does.
prefix_len(s) ==
    IF lower(slice(s, 1, 3)) = <<"d", "e", "p">> THEN 3
    ELSE IF lower(slice(s, 1, 3)) = <<"a", "r", "r">> THEN 3
    ELSE IF lower(slice(s, 1, 7)) = <<"a", "t", " ", "g", "a", "t", "e">> THEN 7
    ELSE 0

\* \s*: the first position at or after i that holds no whitespace.
RECURSIVE skip_ws(_, _)
skip_ws(s, i) == IF At(s, i) \in Whitespace THEN skip_ws(s, i + 1) ELSE i

\* \d{1,2} that takes two digits only.
digits_len_two_only(s, i) ==
    IF IsDigit(At(s, i)) /\ IsDigit(At(s, i + 1)) THEN 2 ELSE 0

\* \d{1,2}, greedy: how many digits are taken at i (0: no match).
digits_len(s, i) ==
    IF ~IsDigit(At(s, i)) THEN 0 ELSE IF IsDigit(At(s, i + 1)) THEN 2 ELSE 1

\* _TYPE_MAP.get(prefix_lower, "unknown").
type_of(prefix_lower) ==
    IF prefix_lower = <<"d", "e", "p">> THEN "departed"
    ELSE IF prefix_lower = <<"a", "r", "r">> THEN "arrived"
    ELSE IF prefix_lower = <<"a", "t", " ", "g", "a", "t", "e">> THEN "at_gate"
    ELSE "unknown"

ParsedStatus(t, time, day) == [status_type |-> t, actual_time |-> time, actual_date |-> day]

Unknown == ParsedStatus("unknown", NoneS, NoneS)

\* _STATUS_RE.match(s) and the lines that build the result from its groups.
match_status(s) ==
    LET pl == prefix_len(s)
        b  == skip_ws(s, pl + 1)
        tl == digits_len(s, b)
        c  == b + tl
        e  == c + 3
        time_ok == /\ pl > 0
                   /\ b > pl + 1
                   /\ tl > 0
                   /\ At(s, c) = ":"
                   /\ IsDigit(At(s, c + 1))
                   /\ IsDigit(At(s, c + 2))
        f  == skip_ws(s, e)
        dl == digits_len(s, f + 1)
        g  == f + 1 + dl
        ml == digits_len(s, g + 1)
        h  == g + 1 + ml
        date_ok == /\ f > e
                   /\ At(s, f) = "("
                   /\ dl > 0
                   /\ At(s, g) = "/"
                   /\ ml > 0
                   /\ At(s, h) = "/"
                   /\ \A j \in 1..4 : IsDigit(At(s, h + j))
                   /\ At(s, h + 5) = ")"
                   /\ skip_ws(s, h + 6) = Len(s) + 1
        status_type == type_of(lower(strip(slice(s, 1, pl))))
        time_str == slice(s, b, e - 1)
    IN  IF time_ok /\ date_ok
        THEN ParsedStatus(status_type, time_str,
                 format_d(int_of(slice(s, h + 1, h + 4)), 4) \o <<"-">>
                 \o format_d(int_of(slice(s, g + 1, h - 1)), 2) \o <<"-">>
                 \o format_d(int_of(slice(s, f + 1, g - 1)), 2))
        ELSE IF time_ok /\ skip_ws(s, e) = Len(s) + 1
        THEN ParsedStatus(status_type, time_str, NoneS)
        ELSE Unknown

\* parse_status; status.kind is "none", "other" (not a str) or "str".
parse_status(status) ==
    IF status.kind # "str" \/ status.chars = <<>> THEN Unknown
    ELSE LET s == strip(status.chars)
         IN  IF s = <<>> THEN Unknown
             ELSE IF lower(s) = <<"c", "a", "n", "c", "e", "l", "l", "e", "d">> THEN ParsedStatus("cancelled", NoneS, NoneS)
             ELSE IF lower(s) = <<"d", "e", "l", "a", "y", "e", "d">> THEN ParsedStatus("delayed", NoneS, NoneS)
             ELSE match_status(s)

(***************************************************************************)
(* reference/airlines.py, reference/airports.py                            *)
(***************************************************************************)
\* A dict is the sequence of its (key, row) entries in insertion order.
\* An Optional value is <<>> for None and <<v>> for v.
Entry(key, row) == [key |-> key, row |-> row]

HasKey(table, key) == \E i \in 1..Len(table) : table[i].key = key
RowOf(table, key) == table[CHOOSE i \in 1..Len(table) : table[i].key = key].row

\* dict.get(key): None, or the value.
dict_get(table, key) == IF HasKey(table, key) THEN <<RowOf(table, key)>> ELSE <<>>

\* d[key] = row: replaced in place, or added at the end.
dict_set(table, key, row) ==
    IF HasKey(table, key)
    THEN [i \in 1..Len(table) |-> IF table[i].key = key THEN Entry(key, row) ELSE table[i]]
    ELSE Append(table, Entry(key, row))

\* {**base, **over}.
RECURSIVE dict_merge(_, _)
dict_merge(base, over) ==
    IF over = <<>> THEN base
    ELSE dict_merge(dict_set(base, Head(over).key, Head(over).row), Tail(over))

\* json.load of the bundled file: its table, or {} when open() raises
\* FileNotFoundError or the parser raises JSONDecodeError.
load_bundled(file, content) == IF file = "ok" THEN content ELSE <<>>

\* An overlay in which the bundled rows replace the overrides.
overlay_bundled_wins(bundled, overrides) == dict_merge(overrides, bundled)

\* {**_cache, **_OVERRIDES}.
overlay(bundled, overrides) == dict_merge(bundled, overrides)

\* _AIRLINE_OVERRIDES and _AIRPORT_OVERRIDES (rows without an "iata" for airlines).
AIRLINE_OVERRIDES ==
    << Entry(<<"H", "G", "B">>, [icao |-> "HGB", name |-> "Greater Bay Airlines", iata |-> <<>>]),
       Entry(<<"S", "J", "X">>, [icao |-> "SJX", name |-> "Starlux Airlines", iata |-> <<>>]) >>

AIRPORT_OVERRIDES ==
    << Entry(<<"T", "F", "U">>, [iata |-> "TFU", name |-> "Chengdu Tianfu International Airport"]),
       Entry(<<"U", "B", "N">>, [iata |-> "UBN", name |-> "Chinggis Khaan International Airport"]) >>

\* The bundled data files: airlines.json keyed by ICAO, airports.json by IATA.
AirlinesJson ==
    << Entry(<<"C", "P", "A">>, [icao |-> "CPA", name |-> "Cathay Pacific", iata |-> <<"C", "X">>]),
       Entry(<<"H", "G", "B">>, [icao |-> "HGB", name |-> "GBA", iata |-> <<"H", "B">>]),
       Entry(<<"H", "D", "A">>, [icao |-> "HDA", name |-> "Dragonair", iata |-> <<"C", "X">>]),
       Entry(<<"A", "N", "A">>, [icao |-> "ANA", name |-> "All Nippon Airways", iata |-> <<"N", "H">>]) >>

AirportsJson ==
    << Entry(<<"H", "K", "G">>, [iata |-> "HKG", name |-> "Hong Kong International Airport"]),
       Entry(<<"T", "F", "U">>, [iata |-> "TFU", name |-> "Tianfu"]),
       Entry(<<"I", "C", "N">>, [iata |-> "ICN", name |-> "Incheon International Airport"]) >>

\* _load_airlines: reads and overlays only while the global is None.
load_airlines(r) ==
    IF r.airlines_cache = <<>>
    THEN [r EXCEPT !.airlines_cache =
                       <<overlay(load_bundled(r.airlines_file, AirlinesJson), AIRLINE_OVERRIDES)>>,
                   !.airlines_reads = r.airlines_reads + 1]
    ELSE r

\* _load_airports.
load_airports(r) ==
    IF r.airports_cache = <<>>
    THEN [r EXCEPT !.airports_cache =
                       <<overlay(load_bundled(r.airports_file, AirportsJson), AIRPORT_OVERRIDES)>>,
                   !.airports_reads = r.airports_reads + 1]
    ELSE r

\* The loop of _build_iata_index: the first ICAO code of each IATA code.
RECURSIVE index_loop(_, _)
index_loop(index, data) ==
    IF data = <<>> THEN index
    ELSE LET iata == Head(data).row.iata
         IN  index_loop(IF iata # <<>> /\ ~HasKey(index, iata)
                        THEN dict_set(index, iata, Head(data).key)
                        ELSE index,
                        Tail(data))

\* _build_iata_index: loads the airlines, builds only while the global is None.
build_iata_index(r) ==
    IF r.iata_to_icao_cache = <<>>
    THEN LET r1 == load_airlines(r)
         IN  [r1 EXCEPT !.iata_to_icao_cache = <<index_loop(<<>>, r1.airlines_cache[1])>>]
    ELSE r

\* A normalisation that upper-cases and does not strip.
normalize_code_no_strip(code) == upper(code)

\* code.upper().strip().
normalize_code(code) == strip(upper(code))

\* "if not code: return None": the argument is None or "".
is_falsy(arg) == arg.kind = "none" \/ arg.chars = <<>>

\* iata_to_icao: the globals after the call, and the value returned.
iata_to_icao(r, arg) ==
    IF is_falsy(arg) THEN [ref |-> r, result |-> <<>>]
    ELSE LET r1 == build_iata_index(r)
         IN  [ref |-> r1,
              result |-> dict_get(r1.iata_to_icao_cache[1], normalize_code(arg.chars))]

\* get_airline: AirlineInfo(icao, name, ...) of the row, or None.
get_airline(r, arg) ==
    IF is_falsy(arg) THEN [ref |-> r, result |-> <<>>]
    ELSE LET r1 == load_airlines(r)
             row == dict_get(r1.airlines_cache[1], normalize_code(arg.chars))
         IN  [ref |-> r1,
              result |-> IF row = <<>> THEN <<>>
                         ELSE <<[icao |-> row[1].icao, name |-> row[1].name]>>]

\* get_airport: AirportInfo(iata, name, ...) of the row, or None.
get_airport(r, arg) ==
    IF is_falsy(arg) THEN [ref |-> r, result |-> <<>>]
    ELSE LET r1 == load_airports(r)
             row == dict_get(r1.airports_cache[1], normalize_code(arg.chars))
         IN  [ref |-> r1,
              result |-> IF row = <<>> THEN <<>>
                         ELSE <<[iata |-> row[1].iata, name |-> row[1].name]>>]

(***************************************************************************)
(* reference/airlines.py, statement by statement, for threads that share   *)
(* the module globals.  r.airlines_cache is <<>> for None; r.iata_cache is *)
(* 0 for None and otherwise names the dict object it refers to, r.objs[t]  *)
(* being the dict thread t created in _build_iata_index.  r.th[t] is the   *)
(* frame of thread t, r.th[t].pc the statement it is at.                   *)
(***************************************************************************)
Threads == {1, 2}

\* One statement of _load_airlines, run by thread t.
load_airlines_step(r, t) ==
    CASE r.th[t].pc = "load_check" ->
             \* if _airlines_cache is None
             [r EXCEPT !.th[t].pc = IF r.airlines_cache = <<>> THEN "read" ELSE "load_return"]
      [] r.th[t].pc = "read" ->
             \* the try statement: the global is bound to the bundled table,
             \* or to {} in the except clause
             [r EXCEPT !.airlines_cache = <<load_bundled(r.airlines_file, AirlinesJson)>>,
                       !.airlines_reads = r.airlines_reads + 1,
                       !.th[t].pc = "overlay"]
      [] r.th[t].pc = "overlay" ->
             \* _airlines_cache = {**_airlines_cache, **_AIRLINE_OVERRIDES}
             [r EXCEPT !.airlines_cache = <<overlay(r.airlines_cache[1], AIRLINE_OVERRIDES)>>,
                       !.th[t].pc = "load_return"]
      [] r.th[t].pc = "load_return" ->
             \* return _airlines_cache, bound to data by the caller
             [r EXCEPT !.th[t].data = r.airlines_cache[1],
                       !.th[t].pc = IF r.th[t].fn = "iata_to_icao" THEN "index_init" ELSE "get"]

\* One statement of _build_iata_index, run by thread t.
build_iata_index_step(r, t) ==
    LET f == r.th[t]
        g == r.iata_cache
    IN  CASE f.pc = "build_check" ->
                 \* if _iata_to_icao_cache is None
                 [r EXCEPT !.th[t].pc = IF g = 0 THEN "load_check" ELSE "index_return"]
          [] f.pc = "index_init" ->
                 \* _iata_to_icao_cache = {}, a new dict
                 [r EXCEPT !.objs[t] = <<>>,
                           !.iata_cache = t,
                           !.th[t].i = 1,
                           !.th[t].pc = IF f.data = <<>> THEN "index_return" ELSE "index_loop"]
          [] f.pc = "index_loop" ->
                 \* one pass of the for-loop, on the dict the global names now
                 LET iata == f.data[f.i].row.iata
                 IN  [r EXCEPT !.objs[g] = IF iata # <<>> /\ ~HasKey(r.objs[g], iata)
                                           THEN dict_set(r.objs[g], iata, f.data[f.i].key)
                                           ELSE r.objs[g],
                               !.th[t].i = f.i + 1,
                               !.th[t].pc = IF f.i = Len(f.data) THEN "index_return"
                                            ELSE "index_loop"]
          [] f.pc = "index_return" ->
                 \* return _iata_to_icao_cache
                 [r EXCEPT !.th[t].index = g, !.th[t].pc = "get"]

\* iata_to_icao / get_airline of thread t: the entry up to the call of
\* _build_iata_index / _load_airlines, and the dict get on what it returned.
lookup_step(r, t) ==
    LET f == r.th[t]
        row == dict_get(f.data, f.code)
    IN  CASE f.pc = "call" ->
                 IF is_falsy(f.arg)
                 THEN [r EXCEPT !.th[t].pc = "done", !.th[t].result = <<>>]
                 ELSE [r EXCEPT !.th[t].code = normalize_code(f.arg.chars),
                                !.th[t].pc = IF f.fn = "iata_to_icao" THEN "build_check"
                                             ELSE "load_check"]
          [] f.pc = "get" ->
                 [r EXCEPT !.th[t].pc = "done",
                           !.th[t].result =
                               IF f.fn = "iata_to_icao" THEN dict_get(r.objs[f.index], f.code)
                               ELSE IF row = <<>> THEN <<>>
                               ELSE <<[icao |-> row[1].icao, name |-> row[1].name]>>]

(***************************************************************************)
(* audit/sources/hk_airport.py: HKAirportSource                            *)
(*                                                                         *)
(* A JSON value is a tagged tuple: <<"null">>, <<"str", chars>>,           *)
(* <<"list", values>> or <<"dict", entries>> with entries <<key, value>>.  *)
(* A RawFlight's Optional[str] fields hold NoneS for None; a Flight's      *)
(* scheduled_time is <<>> for None and <<datetime>> otherwise.             *)
(***************************************************************************)
\* d.get(key): the value under key, None when d has no such key.
json_get(d, key) ==
    LET es == d[2]
    IN  IF \E i \in 1..Len(es) : es[i][1] = key
        THEN es[CHOOSE i \in 1..Len(es) : es[i][1] = key][2]
        ELSE <<"null">>

\* Python truthiness of a JSON value, as the `or` chains and `if` tests read it.
truthy(v) == v[1] # "null" /\ v[2] # <<>>

\* str(v).strip() of a string, or of a list of strings: '[]', "['a', 'b']".
str_strip(v) ==
    LET quoted[n \in 0..Len(v[2])] ==
            IF n = 0 THEN <<>>
            ELSE quoted[n - 1] \o (IF n > 1 THEN <<",", " ">> ELSE <<>>)
                               \o <<"'">> \o v[2][n][2] \o <<"'">>
    IN  CASE v[1] = "str" -> strip(v[2])
          [] v[1] = "list" -> <<"[">> \o quoted[Len(v[2])] \o <<"]">>

\* _get_str looking under the first of the keys only.
get_str_first_key_only(d, keys) ==
    IF keys = <<>> THEN NoneS
    ELSE LET v == json_get(d, Head(keys))
         IN  IF v[1] # "null" /\ str_strip(v) # <<>> THEN str_strip(v) ELSE NoneS

\* _get_str: the first key whose value is present and not blank, stripped.
RECURSIVE get_str(_, _)
get_str(d, keys) ==
    IF keys = <<>> THEN NoneS
    ELSE LET v == json_get(d, Head(keys))
         IN  IF v[1] # "null" /\ str_strip(v) # <<>> THEN str_strip(v)
             ELSE get_str(d, Tail(keys))

\* _get_str_or_first: as _get_str, but a non-empty list answers with its first element.
RECURSIVE get_str_or_first(_, _)
get_str_or_first(d, keys) ==
    IF keys = <<>> THEN NoneS
    ELSE LET v == json_get(d, Head(keys))
         IN  IF v[1] = "null" THEN get_str_or_first(d, Tail(keys))
             ELSE IF v[1] = "list" /\ Len(v[2]) > 0
                  THEN IF truthy(v[2][1]) THEN str_strip(v[2][1]) ELSE NoneS
             ELSE IF str_strip(v) # <<>> THEN str_strip(v)
             ELSE get_str_or_first(d, Tail(keys))

\* _parse_list_item, lines 61-93: the fields the records of one item share, and
\* the flight-number entries to go through.
item_fields(item, date_str, arrival) ==
    LET HKG == <<"H", "K", "G">>
        listKeys == <<"flight", "Flight number list", "flightNumberList", "flightNumbers", "flights">>
        found[i \in 1..(Len(listKeys) + 1)] ==
            IF i > Len(listKeys) THEN <<"list", <<>>>>
            ELSE IF truthy(json_get(item, listKeys[i])) THEN json_get(item, listKeys[i])
            ELSE found[i + 1]
        listed == IF found[1][1] = "dict" THEN <<"list", <<found[1]>>>> ELSE found[1]
        direct == \/ truthy(json_get(item, "No"))
                  \/ truthy(json_get(item, "FlightNo"))
                  \/ truthy(json_get(item, "Airline"))
    IN  [origin |-> IF arrival
                    THEN get_str_or_first(item, <<"Origin", "origin", "Port of origin",
                                                  "portOfOrigin", "From", "from", "dep_iata", "dep">>)
                    ELSE HKG,
         destination |-> IF arrival THEN HKG
                         ELSE get_str_or_first(item, <<"Destination", "destination",
                                                       "Port of destination", "portOfDestination",
                                                       "To", "to", "arr_iata", "arr">>),
         scheduled_time |-> get_str(item, <<"Time", "time", "ScheduledTime", "scheduledTime">>),
         status |-> get_str(item, <<"Status", "status">>),
         gate |-> get_str(item, <<"Gate", "gate">>),
         terminal |-> get_str(item, <<"Terminal", "terminal">>),
         \* datetime.strptime(date_str, "%Y-%m-%d").date() as a day of the month
         date |-> int_of(slice(date_str, 9, 10)),
         flight_nos |-> IF ~truthy(listed) /\ direct THEN <<item>>
                        ELSE IF listed[1] = "list" THEN listed[2]
                        ELSE <<>>]   \* the characters of a string: no dict among them

\* RawFlight(...) as lines 105-115 and 120-130 build it; cargo keeps its default.
RawFlight(f, o, d, no, al) ==
    [origin |-> o, destination |-> d, flight_no |-> no, airline |-> al,
     scheduled_time |-> f.scheduled_time, status |-> f.status, date |-> f.date,
     gate |-> f.gate, terminal |-> f.terminal, cargo |-> None]

\* `x or ""` of an Optional[str].
or_empty(s) == IF s = NoneS THEN <<>> ELSE s

\* _parse_list_item, lines 95-116: one RawFlight per entry that has a number or an airline.
RECURSIVE parse_entries(_, _)
parse_entries(flight_nos, f) ==
    IF flight_nos = <<>> THEN <<>>
    ELSE LET fn == Head(flight_nos)
             flight_no == get_str(fn, <<"No", "no", "FlightNo", "flightNo",
                                        "number", "flight_number">>)
             airline == get_str(fn, <<"Airline", "airline", "carrier", "Carrier">>)
         IN  IF fn[1] = "dict" /\ (flight_no # NoneS \/ airline # NoneS)
             THEN <<RawFlight(f, f.origin, f.destination, or_empty(flight_no), or_empty(airline))>>
                  \o parse_entries(Tail(flight_nos), f)
             ELSE parse_entries(Tail(flight_nos), f)

\* _parse_list_item without lines 118-131: an item no entry of which is usable yields nothing.
parse_list_item_no_placeholder(item, date_str, arrival) ==
    parse_entries(item_fields(item, date_str, arrival).flight_nos,
                  item_fields(item, date_str, arrival))

\* _parse_list_item: the RawFlights of one list item, and one with an empty flight
\* number and airline when there is none but the item has a route.
parse_list_item(item, date_str, arrival) ==
    LET f == item_fields(item, date_str, arrival)
        parsed == parse_entries(f.flight_nos, f)
    IN  IF parsed = <<>> /\ (or_empty(f.origin) # <<>> \/ or_empty(f.destination) # <<>>)
        THEN <<RawFlight(f, or_empty(f.origin), or_empty(f.destination), <<>>, <<>>)>>
        ELSE parsed

\* fetch_flights after the response arrived: the branch on the response's shape.
hk_fetch_flights(data, flight_date, arrival) ==
    LET \* flight_date.strftime("%Y-%m-%d"), the day of the month in February 2026
        requested == <<"str", <<"2", "0", "2", "6", "-", "0", "2", "-">> \o format_d(flight_date, 2)>>
        has_key(d, key) == \E i \in 1..Len(d[2]) : d[2][i][1] = key
        or3(a, b, c) == IF truthy(a) THEN a ELSE IF truthy(b) THEN b ELSE c
        parse_all(items, date_str) ==
            LET acc[i \in 0..Len(items)] ==
                    IF i = 0 THEN <<>>
                    ELSE acc[i - 1] \o parse_list_item(items[i], date_str[2], arrival)
            IN  acc[Len(items)]
        wrapped[i \in 0..Len(data[2])] ==
            IF i = 0 THEN <<>>
            ELSE LET wrapper == data[2][i]
                     items == or3(json_get(wrapper, "list"), json_get(wrapper, "List"),
                                  <<"list", <<>>>>)
                     date_str == or3(json_get(wrapper, "date"), json_get(wrapper, "Date"),
                                     requested)
                 IN  wrapped[i - 1] \o parse_all(items[2], date_str)
    IN  IF data[1] = "list"
        THEN IF /\ data[2] # <<>>
                /\ data[2][1][1] = "dict"
                /\ (has_key(data[2][1], "list") \/ has_key(data[2][1], "List"))
             THEN wrapped[Len(data[2])]
             ELSE parse_all(data[2], requested)
        ELSE parse_all(or3(json_get(data, "List"), json_get(data, "list"), <<"list", <<>>>>)[2],
                       or3(json_get(data, "Date"), json_get(data, "date"), requested))

\* datetime.strptime of "<date> <time>" under "%Y-%m-%d %H:%M" (n = 2 fields) or
\* "%Y-%m-%d %H:%M:%S" (n = 3): <<the time>>, or <<>> for ValueError (raised by
\* the match, or by datetime() for the seconds 60 and 61 that %S matches).
strptime_time(s, n) ==
    LET colons == {i \in 1..Len(s) : s[i] = ":"}
        c1 == CHOOSE i \in colons : \A j \in colons : i <= j
        c2 == CHOOSE i \in colons : \A j \in colons : j <= i
        H == slice(s, 1, c1 - 1)
        M == IF n = 2 THEN slice(s, c1 + 1, Len(s)) ELSE slice(s, c1 + 1, c2 - 1)
        S == IF n = 2 THEN <<"0">> ELSE slice(s, c2 + 1, Len(s))
        field(f, max) == /\ Len(f) \in {1, 2}
                         /\ \A i \in 1..Len(f) : IsDigit(f[i])
                         /\ int_of(f) <= max
    IN  IF Cardinality(colons) = n - 1 /\ field(H, 23) /\ field(M, 59) /\ field(S, 59)
        THEN <<[hour |-> int_of(H), minute |-> int_of(M), second |-> int_of(S)]>>
        ELSE <<>>

\* HKAirportSource.raw_to_flight.
hk_raw_to_flight(raw) ==
    LET t == raw.scheduled_time
        dt == IF t = NoneS \/ t = <<>> THEN <<>>
              ELSE IF strptime_time(t, 2) # <<>> THEN strptime_time(t, 2)
              ELSE strptime_time(t, 3)
    IN  [origin |-> raw.origin, destination |-> raw.destination,
         flight_no |-> raw.flight_no, airline |-> raw.airline,
         scheduled_time |-> IF dt = <<>> THEN <<>>
                            ELSE <<[date |-> raw.date, hour |-> dt[1].hour,
                                    minute |-> dt[1].minute, second |-> dt[1].second]>>,
         status |-> raw.status, date |-> raw.date,
         gate |-> raw.gate, terminal |-> raw.terminal, cargo |-> None]
(***************************************************************************)
(* The machines at rest                                                    *)
(***************************************************************************)
IdleM == [pc |-> "idle", flight |-> Raw("", "", "", 1),
          route |-> RouteFilter(None, None, FALSE), result |-> FALSE]

IdleQ == [pc |-> "idle", route |-> RouteFilter(None, None, FALSE),
          date_filter |-> [start_date |-> 1, end_date |-> NoDate],
          d |-> 1, raw_flights |-> <<>>, all_flights |-> <<>>,
          returned |-> <<>>, error |-> None]

IdleK == [pc |-> "none", env |-> None, api_key_arg |-> None, api_key |-> "",
          flight_date |-> 1, arrival |-> FALSE, cargo |-> FALSE, page |-> 1,
          all_items |-> <<>>, flights |-> <<>>, error |-> None]

NoParts == [lead |-> <<>>, kw |-> [chars |-> <<>>, type |-> "other"], sep |-> <<>>,
            time |-> [chars |-> <<>>, form |-> "empty"], sep2 |-> <<>>,
            date |-> [chars |-> <<>>, form |-> "empty", iso |-> <<>>], trail |-> <<>>]

IdlePs == [pc |-> "idle", parts |-> NoParts, status |-> [kind |-> "none", chars |-> <<>>],
           result |-> Unknown]

IdleRef == [airlines_file |-> "ok", airports_file |-> "ok", airlines_cache |-> <<>>,
            iata_to_icao_cache |-> <<>>, airports_cache |-> <<>>,
            airlines_reads |-> 0, airports_reads |-> 0]

NoLookup == [fn |-> "none", arg |-> [kind |-> "none", chars |-> <<>>], result |-> <<>>]

IdleRace ==
    [airlines_file |-> "ok", airlines_cache |-> <<>>, airlines_reads |-> 0,
     iata_cache |-> 0, objs |-> [t \in Threads |-> <<>>],
     th |-> [t \in Threads |->
               [pc |-> "idle", fn |-> "none", arg |-> [kind |-> "none", chars |-> <<>>],
                code |-> <<>>, data |-> <<>>, i |-> 1, index |-> 0, result |-> <<>>]]]

IdleHK == [pc |-> "idle", items |-> <<>>, shape |-> "bare", resp_date |-> 0,
           data |-> <<"list", <<>>>>, flight_date |-> 1, arrival |-> FALSE,
           flights |-> <<>>, converted |-> <<>>]

RouteAtRest == m = IdleM
QueryAtRest == q = IdleQ /\ calls = <<>>
KoreaAtRest == k = IdleK /\ requests = <<>>
StatusAtRest == ps = IdlePs
RefAtRest == ref = IdleRef /\ prev = NoLookup /\ last = NoLookup

(***************************************************************************)
(* audit/stats.py: compute_stats                                           *)
(***************************************************************************)
\* A list of at most MaxFlights flights.
MaxFlights == 3

\* A count that starts over: d[key] = 1.
bump_reset(d, key) == dict_set(d, key, 1)

\* d[key] = d.get(key, 0) + 1.
bump(d, key) ==
    dict_set(d, key, (IF dict_get(d, key) = <<>> THEN 0 ELSE dict_get(d, key)[1]) + 1)

\* compute_stats: the default FlightStats for no flights, else the counts of the loop.
compute_stats(flights) ==
    LET FlightStats == [total_flights |-> 0, by_airline |-> <<>>, by_date |-> <<>>,
                        by_route |-> <<>>, by_hour |-> <<>>, status_summary |-> <<>>]
        UnknownKey == <<"U", "n", "k", "n", "o", "w", "n">>
        after[i \in 0..Len(flights)] ==
            IF i = 0 THEN [FlightStats EXCEPT !.total_flights = Len(flights)]
            ELSE LET f == flights[i]
                     stats == after[i - 1]
                     \* f.date.isoformat(), the day of the month in February 2026
                     date_key == <<"2", "0", "2", "6", "-", "0", "2", "-">> \o format_d(f.date, 2)
                     \* Flight.route()
                     route == f.origin \o <<"-">> \o f.destination
                     named == IF f.status = NoneS \/ f.status = <<>> THEN UnknownKey ELSE f.status
                     status == IF strip(named) = <<>> THEN UnknownKey ELSE strip(named)
                 IN  [stats EXCEPT
                        !.by_airline = IF f.airline # <<>> THEN bump(@, f.airline) ELSE @,
                        !.by_date = bump(@, date_key),
                        !.by_route = bump(@, route),
                        !.by_hour = IF f.scheduled_time # <<>>
                                    THEN bump(@, f.scheduled_time[1].hour) ELSE @,
                        !.status_summary = bump(@, status)]
    IN  IF flights = <<>> THEN FlightStats ELSE after[Len(flights)]

(***************************************************************************)
(* audit/sources/korea_airport.py: _parse_item and raw_to_flight, in a     *)
(* process whose reference caches are still empty                          *)
(***************************************************************************)
\* The fields of the Flight dataclass.
FlightFields ==
    {"origin", "destination", "flight_no", "airline", "scheduled_time", "status", "date",
     "gate", "terminal", "cargo"}

\* _extract_airline_code: the two-letter prefix, the two-character prefix, or the
\* first two characters.
extract_airline_code(flight_id) ==
    LET letter(c) == IsIn(c, UpperLetters)
    IN  IF /\ Len(flight_id) >= 3
           /\ letter(flight_id[1]) /\ letter(flight_id[2]) /\ IsDigit(flight_id[3])
        THEN slice(flight_id, 1, 2)
        ELSE IF /\ Len(flight_id) >= 3
                /\ (letter(flight_id[1]) \/ IsDigit(flight_id[1]))
                /\ (letter(flight_id[2]) \/ IsDigit(flight_id[2]))
                /\ IsDigit(flight_id[3])
             THEN slice(flight_id, 1, 2)
             ELSE IF Len(flight_id) >= 2 THEN slice(flight_id, 1, 2) ELSE flight_id

\* _parse_item on an item with its fields: None without a flightId; otherwise
\* the keyword arguments it computes (kw) and what RawFlight(**kw) gives, which
\* is TypeError while a keyword is no field of the dataclass.
korea_parse_item(item, flight_date, arrival) ==
    LET ICN == <<"I", "C", "N">>
        field(key) == IF json_get(item, key)[1] = "null" THEN <<>>
                      ELSE strip(json_get(item, key)[2])
        or_none(s) == IF s = <<>> THEN NoneS ELSE s
        icao(code) == LET found == iata_to_icao(IdleRef, [kind |-> "str", chars |-> code]).result
                      IN  IF found # <<>> /\ found[1] # <<>> THEN found[1] ELSE code
        flight_id == field("flightId")
        airline_icao == icao(extract_airline_code(flight_id))
        airport_code == IF field("cityCode") # <<>> THEN field("cityCode") ELSE field("airport")
        sched_time == field("scheduleDateTime")
        shared == field("codeshare") # <<>> /\ field("masterflightid") # <<>>
        kw == [origin |-> IF arrival THEN airport_code ELSE ICN,
               destination |-> IF arrival THEN ICN ELSE airport_code,
               flight_no |-> flight_id,
               airline |-> airline_icao,
               scheduled_time |-> IF sched_time # <<>> /\ Len(sched_time) >= 4
                                  THEN slice(sched_time, 1, 2) \o <<":">> \o slice(sched_time, 3, 4)
                                  ELSE NoneS,
               status |-> or_none(field("remark")),
               date |-> flight_date,
               gate |-> or_none(field("gatenumber")),
               terminal |-> or_none(field("terminalid")),
               cargo |-> "False",
               operating_flight_no |-> IF shared THEN field("masterflightid") ELSE flight_id,
               operating_airline |-> IF shared
                                     THEN icao(extract_airline_code(field("masterflightid")))
                                     ELSE airline_icao]
    IN  IF flight_id = <<>> THEN [kind |-> "none", error |-> None, kw |-> <<>>, raw |-> <<>>]
        ELSE IF DOMAIN kw \subseteq RawFlightFields
             THEN [kind |-> "raw", error |-> None, kw |-> <<kw>>, raw |-> <<kw>>]
             ELSE [kind |-> "raise", error |-> "TypeError", kw |-> <<kw>>, raw |-> <<>>]

\* KoreaAirportSource.raw_to_flight: the Flight, or the exception of reading an
\* attribute the RawFlight lacks or of passing Flight a keyword it lacks.
korea_raw_to_flight(raw) ==
    LET t == raw.scheduled_time
        dt == IF t = NoneS \/ t = <<>> THEN <<>> ELSE strptime_time(t, 2)
        read == {"origin", "destination", "flight_no", "airline", "status", "date", "gate",
                 "terminal", "cargo", "operating_flight_no", "operating_airline"}
    IN  IF ~(read \subseteq DOMAIN raw) THEN [error |-> "AttributeError", flight |-> <<>>]
        ELSE IF ~((read \cup {"scheduled_time"}) \subseteq FlightFields)
             THEN [error |-> "TypeError", flight |-> <<>>]
             ELSE [error |-> None,
                   flight |-> <<[raw EXCEPT !.scheduled_time =
                                    IF dt = <<>> THEN <<>>
                                    ELSE <<[date |-> raw.date, hour |-> dt[1].hour,
                                            minute |-> dt[1].minute, second |-> dt[1].second]>>]>>]

(***************************************************************************)
(* scripts/dump_hk_flights.py                                              *)
(***************************************************************************)
\* main, lines 107-116: the fetch jobs (sort_key, arrival, cargo) of a date
\* range of n dates; the date of job i is date_range[i].
jobs(n, include_cargo) ==
    LET of_date(i) ==
            IF include_cargo
            THEN <<<<i, FALSE, FALSE>>, <<i, TRUE, FALSE>>, <<i, FALSE, TRUE>>, <<i, TRUE, TRUE>>>>
            ELSE <<<<i, FALSE, FALSE>>, <<i, TRUE, FALSE>>>>
        upto[i \in 0..n] == IF i = 0 THEN <<>> ELSE upto[i - 1] \o of_date(i - 1)
    IN  upto[n]

\* The reassembly with the direction as the leading key: every departure of
\* a date before its arrivals.
reassemble_direction_first(results_by_key, n, include_cargo) ==
    LET get(key) == IF key \in DOMAIN results_by_key THEN results_by_key[key] ELSE <<>>
        of_date(i) ==
            IF include_cargo
            THEN get(<<i, FALSE, FALSE>>) \o get(<<i, FALSE, TRUE>>)
                     \o get(<<i, TRUE, FALSE>>) \o get(<<i, TRUE, TRUE>>)
            ELSE get(<<i, FALSE, FALSE>>) \o get(<<i, TRUE, FALSE>>)
        all_raw[i \in 0..n] == IF i = 0 THEN <<>> ELSE all_raw[i - 1] \o of_date(i - 1)
    IN  all_raw[n]

\* main, lines 145-156: all_raw from results_by_key.
reassemble(results_by_key, n, include_cargo) ==
    LET get(key) == IF key \in DOMAIN results_by_key THEN results_by_key[key] ELSE <<>>
        of_date(i) ==
            IF include_cargo
            THEN get(<<i, FALSE, FALSE>>) \o get(<<i, TRUE, FALSE>>)
                     \o get(<<i, FALSE, TRUE>>) \o get(<<i, TRUE, TRUE>>)
            ELSE get(<<i, FALSE, FALSE>>) \o get(<<i, TRUE, FALSE>>)
        all_raw[i \in 0..n] == IF i = 0 THEN <<>> ELSE all_raw[i - 1] \o of_date(i - 1)
    IN  all_raw[n]
(***************************************************************************)
(* scripts/dump_korea_flights.py                                           *)
(***************************************************************************)
\* A missing value of a pandas frame.
NaN == "<NaN>"

\* today.isoformat(), for the days of the model.
date_str(day) == <<"2026-02-01", "2026-02-02", "2026-02-03", "2026-02-04">>[day]

\* df.to_csv(path, index=False): the text of each cell; None and NaN are
\* written as the empty text.
to_csv(frame) ==
    [i \in 1..Len(frame) |->
        [c \in DOMAIN frame[i] |-> IF frame[i][c] \in {None, NaN} THEN "" ELSE frame[i][c]]]

\* pd.read_csv(path, dtype=str): every cell as text, those pandas reads as
\* missing by default as NaN.
read_csv(text) ==
    LET na_values == {"", "#N/A", "#N/A N/A", "#NA", "-1.#IND", "-1.#QNAN", "-NaN", "-nan",
                      "1.#IND", "1.#QNAN", "<NA>", "N/A", "NA", "NULL", "NaN", "None",
                      "n/a", "nan", "null"}
    IN  [i \in 1..Len(text) |->
            [c \in DOMAIN text[i] |-> IF text[i][c] \in na_values THEN NaN ELSE text[i][c]]]
(***************************************************************************)
(* scripts/dump_us_flights.py: _parse_time, _build_status, _normalize      *)
(***************************************************************************)
\* str.zfill(w): zeros on the left up to width w, after a leading sign.
zfill(s, w) ==
    IF s # <<>> /\ s[1] \in {"+", "-"}
    THEN <<s[1]>> \o zero_pad(Tail(s), w - 1)
    ELSE zero_pad(s, w)

\* int(s) of a text without underscores: <<n>>, or <<>> for ValueError.
py_int(s) ==
    LET t == strip(s)
        signed == t # <<>> /\ t[1] \in {"+", "-"}
        body == IF signed THEN Tail(t) ELSE t
    IN  IF body = <<>> \/ \E i \in 1..Len(body) : ~IsDigit(body[i]) THEN <<>>
        ELSE IF signed /\ t[1] = "-" THEN <<0 - int_of(body)>>
        ELSE <<int_of(body)>>

\* float(s) of a text without exponent or underscores: a ValueError, nan, an
\* infinity, or a number given by its sign, its whole part and whether it has
\* a fractional part.
py_float(s) ==
    LET t == strip(s)
        signed == t # <<>> /\ t[1] \in {"+", "-"}
        neg == signed /\ t[1] = "-"
        body == IF signed THEN Tail(t) ELSE t
        dots == {i \in 1..Len(body) : body[i] = "."}
        dot == IF dots = {} THEN Len(body) + 1 ELSE CHOOSE i \in dots : TRUE
        whole == slice(body, 1, dot - 1)
        frac == slice(body, dot + 1, Len(body))
        value(kind) == [kind |-> kind, neg |-> neg, whole |-> 0, frac |-> FALSE]
    IN  IF lower(body) \in {<<"i", "n", "f">>, <<"i", "n", "f", "i", "n", "i", "t", "y">>}
        THEN value("inf")
        ELSE IF lower(body) = <<"n", "a", "n">> THEN value("nan")
        ELSE IF \/ Cardinality(dots) > 1
                \/ whole \o frac = <<>>
                \/ \E i \in 1..Len(body) : body[i] # "." /\ ~IsDigit(body[i])
             THEN value("error")
        ELSE [kind |-> "num", neg |-> neg, whole |-> int_of(whole),
              frac |-> \E i \in 1..Len(frac) : frac[i] # "0"]

\* r.get(key, default) of a row, then str(...).strip(): a row holds every
\* column of its file; an empty cell is NaN, which str() spells 'nan'.
cell(r, key, default) == IF key \in DOMAIN r THEN strip(r[key]) ELSE strip(default)

\* _parse_time that reads hour 24 as midnight of the next day.
parse_time_next_day(hhmm, fl_date) ==
    IF hhmm = <<>> \/ hhmm = <<"n", "a", "n">> THEN <<>>
    ELSE LET z == zfill(SelectSeq(hhmm, LAMBDA c : c # "."), HHMM)
             h == py_int(slice(z, 1, 2))
             mi == py_int(slice(z, 3, 4))
         IN  IF h = <<>> \/ mi = <<>> THEN <<>>
             ELSE IF h[1] = 24 /\ mi[1] \in 0..59
                  THEN <<[date |-> [fl_date EXCEPT !.day = @ + 1], hour |-> 0, minute |-> mi[1]]>>
             ELSE IF h[1] \notin 0..23 \/ mi[1] \notin 0..59 THEN <<>>
             ELSE <<[date |-> fl_date, hour |-> h[1], minute |-> mi[1]]>>

\* _parse_time(hhmm, fl_date): <<the datetime>>, or <<>> for None. int() and
\* datetime() raise ValueError, which the function catches.
parse_time(hhmm, fl_date) ==
    IF hhmm = <<>> \/ hhmm = <<"n", "a", "n">> THEN <<>>
    ELSE LET z == zfill(SelectSeq(hhmm, LAMBDA c : c # "."), HHMM)
             h == py_int(slice(z, 1, 2))
             mi == py_int(slice(z, 3, 4))
         IN  IF h = <<>> \/ mi = <<>> THEN <<>>
             ELSE LET hour == IF h[1] = 24 THEN 0 ELSE h[1]
                  IN  IF hour \notin 0..23 \/ mi[1] \notin 0..59 THEN <<>>
                      ELSE <<[date |-> fl_date, hour |-> hour, minute |-> mi[1]]>>

\* _build_status(r): the status, or the exception that leaves the function.
\* int(delay_min) raises ValueError for nan, which is caught, and
\* OverflowError for an infinity, which is not.
build_status(r) ==
    LET Set == {<<"1">>, <<"1", ".", "0">>, <<"1", ".", "0", "0">>}
        nan == <<"n", "a", "n">>
        arr_time == cell(r, "ArrTime", <<>>)
        arr_delay == cell(r, "ArrDelay", <<>>)
        dep_time == cell(r, "DepTime", <<>>)
        has_arr == arr_time # <<>> /\ arr_time # nan
        delay_min == py_float(arr_delay)
        delay_str == <<"+">> \o digits_of(delay_min.whole) \o <<"m", "i", "n">>
        ok(s) == [raised |-> None, status |-> s]
        fallback == IF dep_time # <<>> /\ dep_time # nan
                    THEN ok(<<"D", "e", "p", " ">> \o zfill(dep_time, 4))
                    ELSE ok(<<>>)
        on_time == IF has_arr THEN ok(<<"A", "r", "r", " ">> \o zfill(arr_time, 4))
                   ELSE ok(<<"O", "n", " ", "t", "i", "m", "e">>)
    IN  IF cell(r, "Cancelled", <<"0">>) \in Set
        THEN ok(<<"C", "a", "n", "c", "e", "l", "l", "e", "d">>)
        ELSE IF cell(r, "Diverted", <<"0">>) \in Set
        THEN ok(<<"D", "i", "v", "e", "r", "t", "e", "d">>)
        ELSE IF arr_delay = <<>> \/ arr_delay = nan \/ delay_min.kind = "error" THEN fallback
        ELSE IF delay_min.kind = "nan" THEN fallback
        ELSE IF delay_min.kind = "inf"
             THEN IF delay_min.neg THEN on_time
                  ELSE [raised |-> "OverflowError", status |-> <<>>]
        ELSE IF delay_min.neg \/ (delay_min.whole = 0 /\ ~delay_min.frac) THEN on_time
        ELSE IF has_arr
             THEN ok(<<"A", "r", "r", " ">> \o zfill(arr_time, 4)
                     \o <<" ", "(">> \o delay_str \o <<")">>)
             ELSE ok(<<"D", "e", "l", "a", "y", "e", "d", " ">> \o delay_str)
\* datetime.strptime(s, "%Y-%m-%d").date(): <<the date>>, or <<>> for
\* ValueError. %Y takes four digits, %m and %d one or two; the date must exist.
strptime_date(s) ==
    LET parts == split(s, "-")
        digits(x, lo, hi) == Len(x) \in lo..hi /\ \A i \in 1..Len(x) : IsDigit(x[i])
        year == int_of(parts[1])
        month == int_of(parts[2])
        day == int_of(parts[3])
        leap == year % 4 = 0 /\ (year % 100 # 0 \/ year % 400 = 0)
        last_day == IF month = 2 THEN (IF leap THEN 29 ELSE 28)
                    ELSE IF month \in {4, 6, 9, 11} THEN 30 ELSE 31
    IN  IF Len(parts) # 3 THEN <<>>
        ELSE IF ~(digits(parts[1], 4, 4) /\ digits(parts[2], 1, 2) /\ digits(parts[3], 1, 2))
        THEN <<>>
        ELSE IF year < 1 \/ month \notin 1..12 \/ day \notin 1..last_day THEN <<>>
        ELSE <<[year |-> year, month |-> month, day |-> day]>>

\* date.isoformat().
isoformat(d) ==
    format_d(d.year, 4) \o <<"-">> \o format_d(d.month, 2) \o <<"-">> \o format_d(d.day, 2)

\* The body of the loop of _normalize for one row: `continue` on a FlightDate
\* that does not parse (no row), the exception _build_status raises, or the
\* normalized row.
normalize_row(r) ==
    LET icao(code) == LET found == iata_to_icao(IdleRef, [kind |-> "str", chars |-> code]).result
                      IN  IF found # <<>> /\ found[1] # <<>> THEN found[1] ELSE code
        numbered(iata, num) == IF num # <<>> THEN iata \o <<" ">> \o num ELSE iata
        mkt_iata == cell(r, "IATA_Code_Marketing_Airline", <<>>)
        flight_no == numbered(mkt_iata, cell(r, "Flight_Number_Marketing_Airline", <<>>))
        op_iata == cell(r, "IATA_Code_Operating_Airline", <<>>)
        op_flight_no == numbered(op_iata, cell(r, "Flight_Number_Operating_Airline", <<>>))
        fl_date == strptime_date(cell(r, "FlightDate", <<>>))
        row(d, status) ==
            [raised |-> status.raised,
             rows |-> IF status.raised # None THEN <<>>
                      ELSE <<[origin |-> cell(r, "Origin", <<>>),
                              destination |-> cell(r, "Dest", <<>>),
                              flight_no |-> flight_no,
                              airline |-> icao(mkt_iata),
                              operating_flight_no |-> IF op_iata # <<>> THEN op_flight_no
                                                      ELSE flight_no,
                              operating_airline |-> IF op_iata # <<>> THEN icao(op_iata)
                                                    ELSE icao(mkt_iata),
                              scheduled_time |-> parse_time(cell(r, "CRSDepTime", <<>>), d),
                              status |-> status.status,
                              date |-> isoformat(d),
                              cargo |-> FALSE]>>]
    IN  IF fl_date = <<>> THEN [raised |-> None, rows |-> <<>>]
        ELSE row(fl_date[1], build_status(r))

\* rows.append(...) after one row of the loop.
normalize_append(acc, o) ==
    IF acc.raised # None THEN acc
    ELSE IF o.raised # None THEN [raised |-> o.raised, rows |-> <<>>]
    ELSE [raised |-> None, rows |-> acc.rows \o o.rows]

\* _normalize(df): the rows of the normalized frame, or the exception that
\* leaves the function (only _build_status can raise one).
normalize(df) ==
    LET after[i \in 0..Len(df)] ==
            IF i = 0 THEN [raised |-> None, rows |-> <<>>]
            ELSE normalize_append(after[i - 1], normalize_row(df[i]))
    IN  after[Len(df)]

\* _download_month(year, month) against one answer of the server: the frame
\* read from the archive, or the exception that leaves the function.
download_month(resp) ==
    CASE resp.kind = "timeout" -> [raised |-> "Timeout", df |-> <<>>]           \* requests.get
      [] resp.kind = "http_error" -> [raised |-> "HTTPError", df |-> <<>>]      \* raise_for_status
      [] resp.kind = "not_zip" -> [raised |-> "RuntimeError", df |-> <<>>]      \* BadZipFile
      [] resp.kind = "zip_without_csv" -> [raised |-> "RuntimeError", df |-> <<>>]
      [] resp.kind = "zip" -> [raised |-> None, df |-> resp.table]
(***************************************************************************)
(* Specification SpecRoute: _matches_route on every flight and filter      *)
(***************************************************************************)
Airports == {"HKG", "TPE", "SIN"}

RouteFlights == {Raw(o, d, "CX421", 1) : o \in Airports \cup {""}, d \in Airports \cup {""}}

RouteFilters == {RouteFilter(o, d, b) : o \in {None, "", "HKG", "TPE"},
                                        d \in {None, "", "HKG", "TPE"},
                                        b \in BOOLEAN}

RouteInit ==
    /\ m \in [pc : {"call"}, flight : RouteFlights, route : RouteFilters, result : {FALSE}]
    /\ QueryAtRest /\ KoreaAtRest /\ StatusAtRest /\ RefAtRest /\ race = IdleRace /\ hk = IdleHK /\ rec = [pc |-> "idle"] /\ stat = [pc |-> "idle"] /\ datef = [pc |-> "idle"] /\ rstr = [pc |-> "idle"] /\ alias = [pc |-> "idle"] /\ bulk = [pc |-> "idle"] /\ usd = [pc |-> "idle"] /\ dhk = [pc |-> "idle"] /\ dko = [pc |-> "idle"]

MatchRoute ==
    /\ m.pc = "call"
    /\ m' = [m EXCEPT !.pc = "done", !.result = matches_route(m.flight, m.route)]
    /\ UNCHANGED <<q, calls, k, requests, ps, ref, prev, last, race, hk, rec, stat, datef, rstr, alias, bulk, usd, dhk, dko>>

RouteNext == MatchRoute

SpecRoute == RouteInit /\ [][RouteNext]_vars

(***************************************************************************)
(* Specification SpecQuery: AuditService.query against any source          *)
(***************************************************************************)
\* The route filters of the queries.
QueryRoutes == {RouteFilter(o, d, b) : o \in {None, "HKG"}, d \in {None, "TPE"},
                                       b \in BOOLEAN}

\* What the source may return for one fetch issued under date d: nothing, one
\* record, records of several routes, a record twice, a record dated the next day.
Responses(d) ==
    { <<>>,
      <<Raw("HKG", "TPE", "CX421", d)>>,
      <<Raw("TPE", "HKG", "CX420", d), Raw("HKG", "SIN", "SQ1", d)>>,
      <<Raw("HKG", "SIN", "SQ1", d), Raw("HKG", "TPE", "CX421", d),
        Raw("HKG", "TPE", "CX421", d)>>,
      <<Raw("TPE", "HKG", "CX420", d + 1), Raw("HKG", "TPE", "CX421", d)>> }

\* One fetch_flights call ends in an exception or in a list of records.
FetchOutcomes(d) ==
    {[error |-> e, flights |-> <<>>] : e \in TransportErrors}
    \cup {[error |-> None, flights |-> r] : r \in Responses(d)}

FetchCall(d, arrival, outcome) ==
    [flight_date |-> d, arrival |-> arrival, cargo |-> FALSE, outcome |-> outcome]

QueryInit ==
    /\ QueryAtRest
    /\ RouteAtRest /\ KoreaAtRest /\ StatusAtRest /\ RefAtRest /\ race = IdleRace /\ hk = IdleHK /\ rec = [pc |-> "idle"] /\ stat = [pc |-> "idle"] /\ datef = [pc |-> "idle"] /\ rstr = [pc |-> "idle"] /\ alias = [pc |-> "idle"] /\ bulk = [pc |-> "idle"] /\ usd = [pc |-> "idle"] /\ dhk = [pc |-> "idle"] /\ dko = [pc |-> "idle"]

\* query(route, date_filter) up to the first fetch, or to the return of an
\* empty range.
QueryCall ==
    /\ q.pc = "idle"
    /\ \E route \in QueryRoutes, df \in DateFilters :
          q' = loop_head([q EXCEPT !.route = route, !.date_filter = df,
                                   !.d = df.start_date, !.all_flights = <<>>])
    /\ UNCHANGED <<m, calls, k, requests, ps, ref, prev, last, race, hk, rec, stat, datef, rstr, alias, bulk, usd, dhk, dko>>

\* Lines 20-22: the departures fetch of the current date.
FetchDepartures ==
    /\ q.pc = "fetch_dep"
    /\ \E outcome \in FetchOutcomes(q.d) :
          /\ calls' = Append(calls, FetchCall(q.d, FALSE, outcome))
          /\ q' = after_fetch(q, outcome, "fetch_arr")
    /\ UNCHANGED <<m, k, requests, ps, ref, prev, last, race, hk, rec, stat, datef, rstr, alias, bulk, usd, dhk, dko>>

\* Lines 24-26: the arrivals fetch of the current date.
FetchArrivals ==
    /\ q.pc = "fetch_arr"
    /\ \E outcome \in FetchOutcomes(q.d) :
          /\ calls' = Append(calls, FetchCall(q.d, TRUE, outcome))
          /\ q' = after_fetch(q, outcome, "filter")
    /\ UNCHANGED <<m, k, requests, ps, ref, prev, last, race, hk, rec, stat, datef, rstr, alias, bulk, usd, dhk, dko>>

\* Lines 28-31, and the loop head or the return that follows.
FilterFlights ==
    /\ q.pc = "filter"
    /\ q' = after_filter(q)
    /\ UNCHANGED <<m, calls, k, requests, ps, ref, prev, last, race, hk, rec, stat, datef, rstr, alias, bulk, usd, dhk, dko>>

QueryNext == QueryCall \/ FetchDepartures \/ FetchArrivals \/ FilterFlights

SpecQuery == QueryInit /\ [][QueryNext]_vars

(***************************************************************************)
(* Specification SpecKorea: KoreaAirportSource against any provider        *)
(***************************************************************************)
KoreaInit ==
    /\ k \in {[IdleK EXCEPT !.env = e] : e \in {None, "", "env-key"}}
    /\ requests = <<>>
    /\ RouteAtRest /\ QueryAtRest /\ StatusAtRest /\ RefAtRest /\ race = IdleRace /\ hk = IdleHK /\ rec = [pc |-> "idle"] /\ stat = [pc |-> "idle"] /\ datef = [pc |-> "idle"] /\ rstr = [pc |-> "idle"] /\ alias = [pc |-> "idle"] /\ bulk = [pc |-> "idle"] /\ usd = [pc |-> "idle"] /\ dhk = [pc |-> "idle"] /\ dko = [pc |-> "idle"]

\* KoreaAirportSource(api_key).
Construct ==
    /\ k.pc = "none"
    /\ \E api_key \in {None, "", "arg-key"} : k' = construct(k, api_key, k.env)
    /\ UNCHANGED <<m, q, calls, requests, ps, ref, prev, last, race, hk, rec, stat, datef, rstr, alias, bulk, usd, dhk, dko>>

\* fetch_flights(flight_date, arrival, cargo) on the instance.
FetchFlights ==
    /\ k.pc = "ready"
    /\ \E flight_date \in {1, MaxDay}, arrival \in BOOLEAN, cargo \in BOOLEAN :
          k' = fetch_flights_entry(k, flight_date, arrival, cargo)
    /\ UNCHANGED <<m, q, calls, requests, ps, ref, prev, last, race, hk, rec, stat, datef, rstr, alias, bulk, usd, dhk, dko>>

\* One pass of the while-loop of _fetch_all_pages: the request and what
\* the provider answers.
FetchPage ==
    /\ k.pc = "paging"
    /\ \E outcome \in PageOutcomes :
          /\ requests' = Append(requests, [request |-> page_request(k), outcome |-> outcome])
          /\ k' = page_step(k, outcome)
    /\ UNCHANGED <<m, q, calls, ps, ref, prev, last, race, hk, rec, stat, datef, rstr, alias, bulk, usd, dhk, dko>>

\* The rest of fetch_flights: every item through _parse_item.
ParseItems ==
    /\ k.pc = "pages_done"
    /\ k' = parse_items(k)
    /\ UNCHANGED <<m, q, calls, requests, ps, ref, prev, last, race, hk, rec, stat, datef, rstr, alias, bulk, usd, dhk, dko>>

KoreaNext == Construct \/ FetchFlights \/ FetchPage \/ ParseItems

SpecKorea == KoreaInit /\ [][KoreaNext]_vars

(***************************************************************************)
(* Specification SpecStatus: parse_status on composed status strings       *)
(***************************************************************************)
Leads == {<<>>, <<" ">>}

Keywords ==
    { [chars |-> <<"D", "e", "p">>, type |-> "departed"],
      [chars |-> <<"D", "E", "P">>, type |-> "departed"],
      [chars |-> <<"d", "e", "p">>, type |-> "departed"],
      [chars |-> <<"A", "r", "r">>, type |-> "arrived"],
      [chars |-> <<"a", "R", "R">>, type |-> "arrived"],
      [chars |-> <<"A", "t", " ", "g", "a", "t", "e">>, type |-> "at_gate"],
      [chars |-> <<"A", "T", " ", "G", "A", "T", "E">>, type |-> "at_gate"],
      [chars |-> <<"A", "t", " ", " ", "g", "a", "t", "e">>, type |-> "other"],
      [chars |-> <<"B", "o", "a", "r", "d", "i", "n", "g">>, type |-> "other"],
      [chars |-> <<>>, type |-> "other"],
      [chars |-> <<"C", "a", "n", "c", "e", "l", "l", "e", "d">>, type |-> "cancelled"],
      [chars |-> <<"C", "A", "N", "C", "E", "L", "L", "E", "D">>, type |-> "cancelled"],
      [chars |-> <<"D", "e", "l", "a", "y", "e", "d">>, type |-> "delayed"],
      [chars |-> <<"d", "e", "l", "a", "y", "e", "d">>, type |-> "delayed"] }

Separators == {<<>>, <<" ">>, <<" ", " ">>, <<"\t">>}

Times ==
    { [chars |-> <<>>, form |-> "empty"],
      [chars |-> <<"0", "0", ":", "1", "3">>, form |-> "HH:MM"],
      [chars |-> <<"2", "3", ":", "5", "5">>, form |-> "HH:MM"],
      [chars |-> <<"5", ":", "3", "0">>, form |-> "H:MM"],
      [chars |-> <<"1", "2", ":", "3">>, form |-> "bad"],
      [chars |-> <<"1", "2", "3", ":", "4", "5">>, form |-> "bad"],
      [chars |-> <<"0", "0", "1", "3">>, form |-> "bad"] }

DateSeparators == {<<>>, <<" ">>, <<" ", " ">>}

Dates ==
    { [chars |-> <<>>, form |-> "empty", iso |-> <<>>],
      [chars |-> <<"(", "0", "2", "/", "0", "1", "/", "2", "0", "2", "6", ")">>, form |-> "DD/MM/YYYY", iso |-> <<"2", "0", "2", "6", "-", "0", "1", "-", "0", "2">>],
      [chars |-> <<"(", "3", "1", "/", "1", "2", "/", "2", "0", "2", "5", ")">>, form |-> "DD/MM/YYYY", iso |-> <<"2", "0", "2", "5", "-", "1", "2", "-", "3", "1">>],
      [chars |-> <<"(", "2", "/", "1", "/", "2", "0", "2", "6", ")">>, form |-> "D/M/YYYY", iso |-> <<"2", "0", "2", "6", "-", "0", "1", "-", "0", "2">>],
      [chars |-> <<"(", "0", "2", "/", "0", "1", "/", "2", "6", ")">>, form |-> "bad", iso |-> <<>>],
      [chars |-> <<"0", "2", "/", "0", "1", "/", "2", "0", "2", "6">>, form |-> "bad", iso |-> <<>>] }

Trails == {<<>>, <<" ">>, <<"x">>}

StatusParts == [lead : Leads, kw : Keywords, sep : Separators, time : Times,
                sep2 : DateSeparators, date : Dates, trail : Trails]

\* The status string the parts spell.
Spell(p) == p.lead \o p.kw.chars \o p.sep \o p.time.chars \o p.sep2 \o p.date.chars \o p.trail

StatusInit ==
    /\ ps \in {[pc |-> "call", parts |-> p, status |-> [kind |-> "str", chars |-> Spell(p)],
                result |-> Unknown] : p \in StatusParts}
              \cup {[pc |-> "call", parts |-> NoParts, status |-> [kind |-> kd, chars |-> <<>>],
                     result |-> Unknown] : kd \in {"none", "other"}}
    /\ RouteAtRest /\ QueryAtRest /\ KoreaAtRest /\ RefAtRest /\ race = IdleRace /\ hk = IdleHK /\ rec = [pc |-> "idle"] /\ stat = [pc |-> "idle"] /\ datef = [pc |-> "idle"] /\ rstr = [pc |-> "idle"] /\ alias = [pc |-> "idle"] /\ bulk = [pc |-> "idle"] /\ usd = [pc |-> "idle"] /\ dhk = [pc |-> "idle"] /\ dko = [pc |-> "idle"]

ParseStatus ==
    /\ ps.pc = "call"
    /\ ps' = [ps EXCEPT !.pc = "done", !.result = parse_status(ps.status)]
    /\ UNCHANGED <<m, q, calls, k, requests, ref, prev, last, race, hk, rec, stat, datef, rstr, alias, bulk, usd, dhk, dko>>

StatusNext == ParseStatus

SpecStatus == StatusInit /\ [][StatusNext]_vars

(***************************************************************************)
(* Specification SpecRef: any sequence of reference lookups in one process *)
(***************************************************************************)
FileStates == {"ok", "missing", "corrupt"}

StrArg(chars) == [kind |-> "str", chars |-> chars]
NoneArg == [kind |-> "none", chars |-> <<>>]

AirlineArgs == {NoneArg} \cup {StrArg(c) : c \in
    {<<>>, <<" ">>, <<"C", "P", "A">>, <<"c", "p", "a">>, <<" ", "C", "p", "a", " ">>, <<"H", "G", "B">>, <<"h", "g", "b", "\t">>, <<"S", "J", "X">>, <<"A", "N", "A">>, <<"Z", "Z", "Q">>}}

AirportArgs == {NoneArg} \cup {StrArg(c) : c \in
    {<<>>, <<" ", " ">>, <<"H", "K", "G">>, <<"h", "k", "g">>, <<" ", "h", "K", "g">>, <<"T", "F", "U">>, <<"t", "f", "u", " ">>, <<"U", "B", "N">>, <<"X", "X", "X">>}}

IataArgs == {NoneArg} \cup {StrArg(c) : c \in
    {<<>>, <<" ">>, <<"C", "X">>, <<"c", "x">>, <<" ", "c", "x", " ">>, <<"H", "B">>, <<"N", "H">>, <<"n", "h", "\t">>, <<"Z", "Z">>}}

RefInit ==
    /\ ref \in {[IdleRef EXCEPT !.airlines_file = f1, !.airports_file = f2] :
                   f1 \in FileStates, f2 \in FileStates}
    /\ prev = NoLookup
    /\ last = NoLookup
    /\ RouteAtRest /\ QueryAtRest /\ KoreaAtRest /\ StatusAtRest /\ race = IdleRace /\ hk = IdleHK /\ rec = [pc |-> "idle"] /\ stat = [pc |-> "idle"] /\ datef = [pc |-> "idle"] /\ rstr = [pc |-> "idle"] /\ alias = [pc |-> "idle"] /\ bulk = [pc |-> "idle"] /\ usd = [pc |-> "idle"] /\ dhk = [pc |-> "idle"] /\ dko = [pc |-> "idle"]

Lookup(fn, arg, out) ==
    /\ ref' = out.ref
    /\ prev' = last
    /\ last' = [fn |-> fn, arg |-> arg, result |-> out.result]
    /\ UNCHANGED <<m, q, calls, k, requests, ps, race, hk, rec, stat, datef, rstr, alias, bulk, usd, dhk, dko>>

LookupAirline == \E arg \in AirlineArgs : Lookup("get_airline", arg, get_airline(ref, arg))

LookupAirport == \E arg \in AirportArgs : Lookup("get_airport", arg, get_airport(ref, arg))

LookupIata == \E arg \in IataArgs : Lookup("iata_to_icao", arg, iata_to_icao(ref, arg))

RefNext == LookupAirline \/ LookupAirport \/ LookupIata

SpecRef == RefInit /\ [][RefNext]_vars

(***************************************************************************)
(* Specification SpecRace: two threads make their first lookups at once    *)
(***************************************************************************)
RaceInit ==
    LET RaceCalls ==
            {[fn |-> "iata_to_icao", arg |-> StrArg(c)] :
                c \in {<<>>, <<"C", "X">>, <<"H", "B">>, <<"n", "h">>}}
            \cup {[fn |-> "get_airline", arg |-> StrArg(c)] :
                c \in {<<"H", "G", "B">>, <<"S", "J", "X">>, <<"c", "p", "a">>}}
    IN  /\ race \in {[IdleRace EXCEPT !.airlines_file = file,
                                      !.th = [t \in Threads |->
                                                [IdleRace.th[t] EXCEPT
                                                    !.pc = "call",
                                                    !.fn = (IF t = 1 THEN c1 ELSE c2).fn,
                                                    !.arg = (IF t = 1 THEN c1 ELSE c2).arg]]] :
                         file \in FileStates, c1 \in RaceCalls, c2 \in RaceCalls}
        /\ RouteAtRest /\ QueryAtRest /\ KoreaAtRest /\ StatusAtRest /\ RefAtRest /\ hk = IdleHK /\ rec = [pc |-> "idle"] /\ stat = [pc |-> "idle"] /\ datef = [pc |-> "idle"] /\ rstr = [pc |-> "idle"] /\ alias = [pc |-> "idle"] /\ bulk = [pc |-> "idle"] /\ usd = [pc |-> "idle"] /\ dhk = [pc |-> "idle"] /\ dko = [pc |-> "idle"]

\* Thread t runs its next statement.
RaceNext ==
    \E t \in Threads :
        /\ \/ /\ race.th[t].pc \in {"call", "get"}
              /\ race' = lookup_step(race, t)
           \/ /\ race.th[t].pc \in {"build_check", "index_init", "index_loop", "index_return"}
              /\ race' = build_iata_index_step(race, t)
           \/ /\ race.th[t].pc \in {"load_check", "read", "overlay", "load_return"}
              /\ race' = load_airlines_step(race, t)
        /\ UNCHANGED <<m, q, calls, k, requests, ps, ref, prev, last, hk, rec, stat, datef, rstr, alias, bulk, usd, dhk, dko>>

SpecRace == RaceInit /\ [][RaceNext]_vars

(***************************************************************************)
(* Specification SpecHK: one fetch_flights call of the Hong Kong adapter   *)
(* on responses of every shape, then raw_to_flight on each record          *)
(***************************************************************************)
HKInit ==
    LET Str(c) == <<"str", c>>
        L(xs) == <<"list", xs>>
        D(es) == <<"dict", es>>
        TPE == <<"T", "P", "E">>
        Items == <<
            \* the item of the dict-format tests
            D(<< <<"Destination", Str(TPE)>>, <<"Origin", Str(TPE)>>, <<"Terminal", Str(<<"1">>)>>,
                 <<"Time", Str(<<"0", "8", ":", "3", "0">>)>>, <<"Gate", Str(<<"2", "3">>)>>,
                 <<"Flight number list",
                   L(<< D(<< <<"No", Str(<<"C", "X", "1">>)>>, <<"Airline", Str(<<"C", "X">>)>> >>) >>)>>,
                 <<"Status", Str(<<"D", "e", "p">>)>> >>),
            \* test_multiple_flights_in_item: two entries, no origin, padded destination
            D(<< <<"Destination", Str(<<" ", "T", "P", "E", " ">>)>>,
                 <<"Time", Str(<<"0", "8", ":", "3", "0">>)>>,
                 <<"Flight number list",
                   L(<< D(<< <<"No", Str(<<"C", "X", "1">>)>>, <<"Airline", Str(<<"C", "X">>)>> >>),
                        D(<< <<"No", Str(<<"K", "A", "2">>)>>, <<"Airline", Str(<<"K", "A">>)>> >>) >>)>> >>),
            \* the wrapper-format item: lower-case keys, routes as arrays, an airline-only entry
            D(<< <<"time", Str(<<"2", "3", ":", "2", "0", ":", "0", "0">>)>>,
                 <<"flight",
                   L(<< D(<< <<"no", Str(<<"C", "X", " ", "2">>)>>, <<"airline", Str(<<"C", "P", "A">>)>> >>),
                        D(<< <<"airline", Str(<<"H", "B">>)>> >>) >>)>>,
                 <<"status", Str(<<"D", "e", "p", " ", "0", "1", ":", "2", "1">>)>>,
                 <<"destination", L(<<Str(<<"A", "M", "S">>)>>)>>,
                 <<"origin", L(<<Str(<<"C", "T", "S">>)>>)>>,
                 <<"terminal", Str(<<"T", "1">>)>>, <<"gate", Str(<<"2", "9">>)>> >>),
            \* the flight entry is a single object, not a list
            D(<< <<"flight", D(<< <<"no", Str(<<"N", "H", "8">>)>> >>)>>,
                 <<"To", Str(<<"N", "R", "T">>)>>, <<"From", Str(<<"N", "R", "T">>)>>,
                 <<"Time", Str(<<"8", ":", "5">>)>> >>),
            \* the flight fields sit on the item itself
            D(<< <<"No", Str(<<"B", "R", "9">>)>>, <<"Airline", Str(<<"B", "R">>)>>,
                 <<"Origin", Str(TPE)>>, <<"Destination", Str(TPE)>>,
                 <<"Time", Str(<<"2", "5", ":", "0", "0">>)>> >>),
            \* nothing usable: a blank entry, an empty route
            D(<< <<"origin", L(<<Str(<<>>)>>)>>, <<"destination", Str(<<>>)>>,
                 <<"Time", Str(<<"l", "a", "t", "e">>)>>,
                 <<"flight", L(<< D(<< <<"no", Str(<<" ">>)>> >>) >>)>> >>),
            \* a blank entry, a usable one and a stray string; blank status
            D(<< <<"Origin", Str(TPE)>>, <<"Destination", L(<<Str(TPE)>>)>>,
                 <<"Status", Str(<<" ", " ">>)>>,
                 <<"flights",
                   L(<< D(<< <<"no", Str(<<>>)>> >>),
                        D(<< <<"No", Str(<<"U", "O", "3">>)>>, <<"carrier", Str(<<"H", "K", "E">>)>> >>),
                        Str(<<"x">>) >>)>> >>),
            \* an empty object
            D(<<>>) >>
        ItemLists == {<<>>} \cup {<<Items[i]>> : i \in 1..Len(Items)}
                     \cup {<<Items[i], Items[j]>> : i \in 1..Len(Items), j \in 1..Len(Items)}
        DateEntry(key, rd) ==
            IF rd = 0 THEN <<>>
            ELSE << <<key, Str(<<"2", "0", "2", "6", "-", "0", "2", "-">> \o format_d(rd, 2))>> >>
        Response(items, shape, rd) ==
            CASE shape = "List" -> D(DateEntry("Date", rd) \o << <<"List", L(items)>> >>)
              [] shape = "list" -> D(DateEntry("date", rd) \o << <<"list", L(items)>> >>)
              [] shape = "bare" -> L(items)
              [] shape = "wrappers" ->
                    IF Len(items) < 2
                    THEN L(<< D(DateEntry("date", rd) \o << <<"list", L(items)>> >>) >>)
                    ELSE L(<< D(DateEntry("date", rd) \o << <<"list", L(<<items[1]>>)>> >>),
                              D(DateEntry("Date", rd) \o << <<"List", L(Tail(items))>> >>) >>)
    IN  /\ \E items \in ItemLists, shape \in {"List", "list", "bare", "wrappers"},
              rd \in {0} \cup Days, flight_date \in Days, arrival \in BOOLEAN :
              /\ shape = "bare" => rd = 0
              /\ hk = [IdleHK EXCEPT !.pc = "call", !.items = items, !.shape = shape,
                                     !.resp_date = rd, !.data = Response(items, shape, rd),
                                     !.flight_date = flight_date, !.arrival = arrival]
        /\ RouteAtRest /\ QueryAtRest /\ KoreaAtRest /\ StatusAtRest /\ RefAtRest /\ race = IdleRace /\ rec = [pc |-> "idle"] /\ stat = [pc |-> "idle"] /\ datef = [pc |-> "idle"] /\ rstr = [pc |-> "idle"] /\ alias = [pc |-> "idle"] /\ bulk = [pc |-> "idle"] /\ usd = [pc |-> "idle"] /\ dhk = [pc |-> "idle"] /\ dko = [pc |-> "idle"]

HKNext ==
    /\ \/ /\ hk.pc = "call"
          /\ hk' = [hk EXCEPT !.pc = "fetched",
                              !.flights = hk_fetch_flights(hk.data, hk.flight_date, hk.arrival)]
       \/ /\ hk.pc = "fetched"
          /\ hk' = [hk EXCEPT !.pc = "converted",
                              !.converted = [i \in 1..Len(hk.flights) |->
                                                hk_raw_to_flight(hk.flights[i])]]
    /\ UNCHANGED <<m, q, calls, k, requests, ps, ref, prev, last, race, rec, stat, datef, rstr, alias, bulk, usd, dhk, dko>>

SpecHK == HKInit /\ [][HKNext]_vars
(***************************************************************************)
(* Specification SpecRecord: one record through an adapter: an Incheon     *)
(* item through _parse_item, a RawFlight through raw_to_flight             *)
(***************************************************************************)
RecordInit ==
    LET Str(c) == <<"str", c>>
        Opt(key, values) == {<<>>} \cup {<< <<key, Str(v)>> >> : v \in values}
        KoreaItems ==
            {<<"dict", id \o share \o master \o sched \o << <<"cityCode", Str(<<"N", "R", "T">>)>> >> >> :
                id \in Opt("flightId", {<<"N", "H", "8">>, <<" ", "C", "X", "1", " ">>,
                                        <<"7", "C", "1">>, <<"Z", "Z", "9">>, <<"K">>, <<" ">>}),
                share \in Opt("codeshare", {<<"S", "l", "a", "v", "e">>}),
                master \in Opt("masterflightid", {<<"C", "X", "1">>}),
                sched \in Opt("scheduleDateTime", {<<"0", "8", "3", "0">>, <<"0", "8">>})}
        TimeStrings == {NoneS, <<>>, <<"0", "8", ":", "3", "0">>, <<"2", "3", ":", "2", "0", ":", "0", "0">>,
                  <<"8", ":", "5">>, <<"2", "5", ":", "0", "0">>, <<"0", "8", ":", "6", "0">>,
                  <<"1", "2", ":", "3", "0", ":", "6", "1">>, <<"0", "8", "3", "0">>,
                  <<"l", "a", "t", "e">>}
        Raws == {RawFlight([scheduled_time |-> t, status |-> st, date |-> d,
                            gate |-> NoneS, terminal |-> NoneS],
                           <<"H", "K", "G">>, <<"T", "P", "E">>, fl[1], fl[2]) :
                    t \in TimeStrings, st \in {NoneS, <<"D", "e", "p">>}, d \in Days,
                    fl \in {<< <<"C", "X", "1">>, <<"C", "X">> >>, << <<>>, <<>> >>,
                            << <<"Z", "Z", "9">>, <<"Z", "Z">> >>}}
        Start == [pc |-> "raw", adapter |-> "hk", item |-> <<"dict", <<>>>>, flight_date |-> 1,
                  arrival |-> FALSE, kw |-> <<>>, raw |-> <<>>, flight |-> <<>>, error |-> None]
    IN  /\ \/ \E a \in {"hk", "korea"}, raw \in Raws :
                rec = [Start EXCEPT !.adapter = a, !.raw = <<raw>>, !.flight_date = raw.date]
           \/ \E item \in KoreaItems, d \in Days, arrival \in BOOLEAN :
                rec = [Start EXCEPT !.pc = "item", !.adapter = "korea", !.item = item,
                                    !.flight_date = d, !.arrival = arrival]
        /\ RouteAtRest /\ QueryAtRest /\ KoreaAtRest /\ StatusAtRest /\ RefAtRest /\ race = IdleRace /\ hk = IdleHK /\ stat = [pc |-> "idle"] /\ datef = [pc |-> "idle"] /\ rstr = [pc |-> "idle"] /\ alias = [pc |-> "idle"] /\ bulk = [pc |-> "idle"] /\ usd = [pc |-> "idle"] /\ dhk = [pc |-> "idle"] /\ dko = [pc |-> "idle"]

RecordNext ==
    /\ \/ /\ rec.pc = "item"
          /\ LET out == korea_parse_item(rec.item, rec.flight_date, rec.arrival)
             IN  rec' = [rec EXCEPT !.pc = IF out.kind = "raise" THEN "raised"
                                          ELSE IF out.kind = "none" THEN "skipped" ELSE "raw",
                                    !.kw = out.kw, !.raw = out.raw, !.error = out.error]
       \/ /\ rec.pc = "raw"
          /\ LET out == IF rec.adapter = "hk"
                        THEN [error |-> None, flight |-> <<hk_raw_to_flight(rec.raw[1])>>]
                        ELSE korea_raw_to_flight(rec.raw[1])
             IN  rec' = [rec EXCEPT !.pc = IF out.error # None THEN "raised" ELSE "flight",
                                    !.flight = out.flight, !.error = out.error]
    /\ UNCHANGED <<m, q, calls, k, requests, ps, ref, prev, last, race, hk, stat, datef, rstr, alias, bulk, usd, dhk, dko>>

SpecRecord == RecordInit /\ [][RecordNext]_vars

(***************************************************************************)
(* Specification SpecStats: compute_stats on every list of flights         *)
(***************************************************************************)
StatsInit ==
    LET HKG == <<"H", "K", "G">>
        TPE == <<"T", "P", "E">>
        Flight(o, d, al, day, hours, status) ==
            [origin |-> o, destination |-> d, flight_no |-> <<>>, airline |-> al,
             scheduled_time |-> IF hours = <<>> THEN <<>>
                                ELSE <<[date |-> day, hour |-> hours[1], minute |-> 30, second |-> 0]>>,
             status |-> status, date |-> day, gate |-> NoneS, terminal |-> NoneS, cargo |-> None]
        Flights ==
            {Flight(HKG, TPE, <<"C", "P", "A">>, 1, <<8>>, <<"D", "e", "p">>),
             Flight(TPE, HKG, <<"C", "P", "A">>, 1, <<8>>, <<" ", "D", "e", "p", " ">>),
             Flight(HKG, TPE, <<"H", "G", "B">>, MaxDay, <<23>>, NoneS),
             Flight(HKG, TPE, <<>>, 1, <<>>, <<" ">>),
             Flight(TPE, HKG, <<"C", "X">>, MaxDay, <<>>, <<"U", "n", "k", "n", "o", "w", "n">>),
             Flight(HKG, <<>>, <<>>, MaxDay, <<0>>, <<>>)}
        Lists == UNION {[1..n -> Flights] : n \in 0..MaxFlights}
    IN  /\ \E flights \in Lists : stat = [pc |-> "call", flights |-> flights, stats |-> <<>>]
        /\ RouteAtRest /\ QueryAtRest /\ KoreaAtRest /\ StatusAtRest /\ RefAtRest /\ race = IdleRace /\ hk = IdleHK /\ rec = [pc |-> "idle"] /\ datef = [pc |-> "idle"] /\ rstr = [pc |-> "idle"] /\ alias = [pc |-> "idle"] /\ bulk = [pc |-> "idle"] /\ usd = [pc |-> "idle"] /\ dhk = [pc |-> "idle"] /\ dko = [pc |-> "idle"]

StatsNext ==
    /\ stat.pc = "call"
    /\ stat' = [stat EXCEPT !.pc = "done", !.stats = <<compute_stats(stat.flights)>>]
    /\ UNCHANGED <<m, q, calls, k, requests, ps, ref, prev, last, race, hk, rec, datef, rstr, alias, bulk, usd, dhk, dko>>

SpecStats == StatsInit /\ [][StatsNext]_vars

(***************************************************************************)
(* Specification SpecDates: a DateFilter built by single, by past_days or  *)
(* field by field, then iterated                                           *)
(***************************************************************************)
DatesInit ==
    /\ \/ \E d \in Days :
            datef = [pc |-> "call", how |-> "single", d |-> d, days |-> 0, until |-> NoDate,
                     today |-> d, filter |-> single(d), dates |-> <<>>]
       \/ \E days \in 0..MaxPastDays, until \in Days \cup {NoDate}, today \in Days :
            datef = [pc |-> "call", how |-> "past_days", d |-> today, days |-> days,
                     until |-> until, today |-> today, filter |-> single(today), dates |-> <<>>]
       \/ \E f \in DateFilters :
            datef = [pc |-> "built", how |-> "fields", d |-> f.start_date, days |-> 0,
                     until |-> NoDate, today |-> f.start_date, filter |-> f, dates |-> <<>>]
    /\ RouteAtRest /\ QueryAtRest /\ KoreaAtRest /\ StatusAtRest /\ RefAtRest /\ race = IdleRace /\ hk = IdleHK /\ rec = [pc |-> "idle"] /\ stat = [pc |-> "idle"] /\ rstr = [pc |-> "idle"] /\ alias = [pc |-> "idle"] /\ bulk = [pc |-> "idle"] /\ usd = [pc |-> "idle"] /\ dhk = [pc |-> "idle"] /\ dko = [pc |-> "idle"]

DatesNext ==
    /\ \/ /\ datef.pc = "call" /\ datef.how = "single"
          /\ datef' = [datef EXCEPT !.pc = "built", !.filter = single(datef.d)]
       \/ /\ datef.pc = "call" /\ datef.how = "past_days"
          /\ datef' = [datef EXCEPT !.pc = "built",
                                    !.filter = past_days(datef.days, datef.until, datef.today)]
       \/ /\ datef.pc = "built"
          /\ datef' = [datef EXCEPT !.pc = "iterated", !.dates = iter_dates(datef.filter)]
    /\ UNCHANGED <<m, q, calls, k, requests, ps, ref, prev, last, race, hk, rec, stat, rstr, alias, bulk, usd, dhk, dko>>

SpecDates == DatesInit /\ [][DatesNext]_vars

(***************************************************************************)
(* Specification SpecRouteString: from_route_string on every string of at  *)
(* most MaxRouteLen characters, with and without the bidirectional argument *)
(***************************************************************************)
RouteStringInit ==
    LET Chars == {"h", "K", " ", "-"}
        Strings == UNION {[1..n -> Chars] : n \in 0..MaxRouteLen}
    IN  /\ \E s \in Strings, b \in {<<>>, <<TRUE>>, <<FALSE>>} :
              rstr = [pc |-> "call", route |-> s, bidirectional |-> b,
                      raised |-> None, filter |-> <<>>]
        /\ RouteAtRest /\ QueryAtRest /\ KoreaAtRest /\ StatusAtRest /\ RefAtRest /\ race = IdleRace /\ hk = IdleHK /\ rec = [pc |-> "idle"] /\ stat = [pc |-> "idle"] /\ datef = [pc |-> "idle"] /\ alias = [pc |-> "idle"] /\ bulk = [pc |-> "idle"] /\ usd = [pc |-> "idle"] /\ dhk = [pc |-> "idle"] /\ dko = [pc |-> "idle"]

RouteStringNext ==
    /\ rstr.pc = "call"
    /\ LET r == from_route_string(rstr.route,
                                  IF rstr.bidirectional = <<>> THEN TRUE
                                  ELSE rstr.bidirectional[1])
       IN  rstr' = [rstr EXCEPT !.pc = IF r.raised = None THEN "returned" ELSE "raised",
                                !.raised = r.raised, !.filter = r.filter]
    /\ UNCHANGED <<m, q, calls, k, requests, ps, ref, prev, last, race, hk, rec, stat, datef, alias, bulk, usd, dhk, dko>>

SpecRouteString == RouteStringInit /\ [][RouteStringNext]_vars
(***************************************************************************)
(* Specification SpecAlias: _get_str_or_first under the destination        *)
(* aliases and _get_str under the gate aliases, on every dict whose        *)
(* aliases hold nothing, a string or a list of strings                     *)
(***************************************************************************)
AliasInit ==
    LET Str(c) == <<"str", c>>
        L(xs) == <<"list", xs>>
        Values == {<<"null">>, Str(<<>>), Str(<<" ">>), Str(<<" ", "x", " ">>), Str(<<"y">>),
                   L(<<>>), L(<<Str(<<>>)>>), L(<<Str(<<"z", " ">>)>>),
                   L(<<Str(<<" ">>), Str(<<"w">>)>>)}
        \* JSON null and a missing key both read as None through dict.get
        Pair(key, v) == IF v = <<"null">> /\ key # "destination" THEN <<>> ELSE << <<key, v>> >>
    IN  /\ \/ \E a, b, c \in Values :
                alias = [pc |-> "call", fn |-> "_get_str_or_first",
                         d |-> <<"dict", Pair("To", c) \o Pair("destination", b)
                                         \o Pair("Destination", a)>>,
                         result |-> NoneS]
           \/ \E a, b \in Values :
                alias = [pc |-> "call", fn |-> "_get_str",
                         d |-> <<"dict", Pair("gate", b) \o Pair("Gate", a)>>,
                         result |-> NoneS]
        /\ RouteAtRest /\ QueryAtRest /\ KoreaAtRest /\ StatusAtRest /\ RefAtRest /\ race = IdleRace /\ hk = IdleHK /\ rec = [pc |-> "idle"] /\ stat = [pc |-> "idle"] /\ datef = [pc |-> "idle"] /\ rstr = [pc |-> "idle"] /\ bulk = [pc |-> "idle"] /\ usd = [pc |-> "idle"] /\ dhk = [pc |-> "idle"] /\ dko = [pc |-> "idle"]

AliasNext ==
    /\ \/ /\ alias.pc = "call" /\ alias.fn = "_get_str_or_first"
          /\ alias' = [alias EXCEPT
                          !.pc = "returned",
                          !.result = get_str_or_first(alias.d,
                                         <<"Destination", "destination", "Port of destination",
                                           "portOfDestination", "To", "to", "arr_iata", "arr">>)]
       \/ /\ alias.pc = "call" /\ alias.fn = "_get_str"
          /\ alias' = [alias EXCEPT !.pc = "returned",
                                    !.result = get_str(alias.d, <<"Gate", "gate">>)]
    /\ UNCHANGED <<m, q, calls, k, requests, ps, ref, prev, last, race, hk, rec, stat, datef, rstr, bulk, usd, dhk, dko>>

SpecAlias == AliasInit /\ [][AliasNext]_vars

(***************************************************************************)
(* Specification SpecBulk: _parse_time on every short time text,           *)
(* _build_status on rows over every combination of its five columns, and   *)
(* _normalize on frames of up to MaxFlights rows                           *)
(***************************************************************************)
BulkInit ==
    LET TimeChars == {"0", "2", "4", "6", ".", "n", "a"}
        TimeTexts == UNION {[1..n -> TimeChars] : n \in 0..HHMM}
        FlightDates == {[year |-> 2025, month |-> 6, day |-> 1],
                        [year |-> 2024, month |-> 2, day |-> 28]}
        nan == <<"n", "a", "n">>
        Column(key, v) == IF v = NoneS THEN <<>> ELSE key :> v
        StatusRow(c, d, ad, at, dt) ==
            Column("Cancelled", c) @@ Column("Diverted", d) @@ Column("ArrDelay", ad)
            @@ Column("ArrTime", at) @@ Column("DepTime", dt)
        FileRow(fd, crs, c, ad, op) ==
            [IATA_Code_Marketing_Airline |-> <<"C", "X">>,
             Flight_Number_Marketing_Airline |-> <<"8", "8">>,
             IATA_Code_Operating_Airline |-> op,
             Flight_Number_Operating_Airline |-> IF op = nan THEN nan ELSE <<"7">>,
             FlightDate |-> fd, CRSDepTime |-> crs, Origin |-> <<"J", "F", "K">>,
             Dest |-> <<" ", "L", "A", "X">>, Cancelled |-> c, Diverted |-> <<"0", ".", "0", "0">>,
             ArrTime |-> <<"9", "0", "5">>, ArrDelay |-> ad, DepTime |-> <<"7">>]
        D1 == <<"2", "0", "2", "5", "-", "0", "6", "-", "0", "1">>
        Rows == <<
            FileRow(D1, <<"2", "4", "0", "0">>, <<"0", ".", "0", "0">>, <<"-", "5", ".", "0", "0">>,
                    <<"N", "H">>),
            FileRow(<<"0", "6", "/", "0", "1", "/", "2", "0", "2", "5">>, <<"8", "3", "0">>,
                    <<"0", ".", "0", "0">>, <<"1", "2", ".", "0", "0">>, <<"Q", "Q">>),
            FileRow(nan, <<"8", "3", "0">>, <<"1", ".", "0", "0">>, <<"i", "n", "f">>, nan),
            FileRow(<<"2", "0", "2", "5", "-", "6", "-", "2">>, <<"l", "a", "t", "e">>,
                    <<"1", ".", "0", "0">>, nan, <<>>),
            FileRow(<<"2", "0", "2", "5", "-", "0", "2", "-", "2", "9">>, nan,
                    <<"0", ".", "0", "0">>, nan, <<"C", "X">>),
            FileRow(D1, nan, <<"0", ".", "0", "0">>, <<"i", "n", "f">>, <<"Q", "Q">>) >>
        Frames == UNION {[1..n -> 1..Len(Rows)] : n \in 0..MaxFlights}
        Call(fn) == [pc |-> "call", fn |-> fn, hhmm |-> <<>>, fl_date |-> CHOOSE d \in FlightDates : TRUE,
                     r |-> <<>>, df |-> <<>>, time |-> <<>>, raised |-> None, status |-> <<>>,
                     rows |-> <<>>]
    IN  /\ \/ \E hhmm \in TimeTexts, d \in FlightDates :
                bulk = [Call("_parse_time") EXCEPT !.hhmm = hhmm, !.fl_date = d]
           \/ \E c \in {NoneS, <<"0", ".", "0", "0">>, <<"1", ".", "0", "0">>, <<"1">>},
                 d \in {<<"0", ".", "0", "0">>, <<"1", ".", "0">>, nan},
                 ad \in {nan, <<"-", "5", ".", "0", "0">>, <<"0", ".", "0", "0">>,
                         <<"1", "2", ".", "0", "0">>, <<"0", ".", "5", "0">>, <<"x">>,
                         <<"i", "n", "f">>, <<" ", "7", " ">>},
                 at \in {nan, <<"9", "0", "5">>, NoneS},
                 dt \in {nan, <<"7">>, <<"1", "4", "1", "0">>} :
                bulk = [Call("_build_status") EXCEPT !.r = StatusRow(c, d, ad, at, dt)]
           \/ \E f \in Frames :
                bulk = [Call("_normalize") EXCEPT !.df = [i \in 1..Len(f) |-> Rows[f[i]]]]
        /\ RouteAtRest /\ QueryAtRest /\ KoreaAtRest /\ StatusAtRest /\ RefAtRest /\ race = IdleRace /\ hk = IdleHK /\ rec = [pc |-> "idle"] /\ stat = [pc |-> "idle"] /\ datef = [pc |-> "idle"] /\ rstr = [pc |-> "idle"] /\ alias = [pc |-> "idle"] /\ usd = [pc |-> "idle"] /\ dhk = [pc |-> "idle"] /\ dko = [pc |-> "idle"]

BulkNext ==
    /\ \/ /\ bulk.pc = "call" /\ bulk.fn = "_parse_time"
          /\ bulk' = [bulk EXCEPT !.pc = "returned",
                                  !.time = parse_time(bulk.hhmm, bulk.fl_date)]
       \/ /\ bulk.pc = "call" /\ bulk.fn = "_build_status"
          /\ LET s == build_status(bulk.r)
             IN  bulk' = [bulk EXCEPT !.pc = IF s.raised = None THEN "returned" ELSE "raised",
                                      !.raised = s.raised, !.status = s.status]
       \/ /\ bulk.pc = "call" /\ bulk.fn = "_normalize"
          /\ LET n == normalize(bulk.df)
             IN  bulk' = [bulk EXCEPT !.pc = IF n.raised = None THEN "returned" ELSE "raised",
                                      !.raised = n.raised, !.rows = n.rows]
    /\ UNCHANGED <<m, q, calls, k, requests, ps, ref, prev, last, race, hk, rec, stat, datef, rstr, alias, usd, dhk, dko>>

SpecBulk == BulkInit /\ [][BulkNext]_vars
(***************************************************************************)
(* Specification SpecDumpHK: dump_hk_flights.main over 1..MaxDay dates,    *)
(* the futures of the worker pool handed over by as_completed in any order *)
(***************************************************************************)
DumpHKInit ==
    LET \* what fetch_flights returns for a job: 0, 1 or 2 records, told apart
        \* by the job and their place in the list
        raw(job, len) == [p \in 1..len |-> <<job[1], job[2], job[3], p>>]
    IN  /\ \E n \in 1..MaxDay, include_cargo \in BOOLEAN, shift \in 0..1 :
           LET js == jobs(n, include_cargo)
           IN  \E failing \in 0..Len(js) :
                  dhk = [pc |-> "collect", n |-> n, include_cargo |-> include_cargo,
                         jobs |-> js,
                         answers |-> [j \in 1..Len(js) |->
                                         IF j = failing THEN [raised |-> "Timeout", raw |-> <<>>]
                                         ELSE [raised |-> None, raw |-> raw(js[j], (j + shift) % 3)]],
                         results_by_key |-> <<>>, collected |-> {}, overtaken |-> FALSE,
                         all_raw |-> <<>>, raised |-> None]
        /\ RouteAtRest /\ QueryAtRest /\ KoreaAtRest /\ StatusAtRest /\ RefAtRest /\ race = IdleRace /\ hk = IdleHK /\ rec = [pc |-> "idle"] /\ stat = [pc |-> "idle"] /\ datef = [pc |-> "idle"] /\ rstr = [pc |-> "idle"] /\ alias = [pc |-> "idle"] /\ bulk = [pc |-> "idle"] /\ usd = [pc |-> "idle"] /\ dko = [pc |-> "idle"]

DumpHKNext ==
    /\ \/ \* lines 127-137: as_completed hands over a future whose fetch returned
          /\ dhk.pc = "collect"
          /\ \E j \in (1..Len(dhk.jobs)) \ dhk.collected :
                /\ dhk.answers[j].raised = None
                /\ dhk' = [dhk EXCEPT !.results_by_key = (dhk.jobs[j] :> dhk.answers[j].raw) @@ @,
                                      !.collected = @ \cup {j},
                                      !.overtaken = @ \/ \E e \in 1..(j - 1) : e \notin dhk.collected,
                                      !.pc = IF dhk.collected \cup {j} = 1..Len(dhk.jobs)
                                             THEN "reassemble" ELSE "collect"]
       \/ \* lines 138-143: a future whose fetch raised: logged, raised again
          /\ dhk.pc = "collect"
          /\ \E j \in (1..Len(dhk.jobs)) \ dhk.collected :
                /\ dhk.answers[j].raised # None
                /\ dhk' = [dhk EXCEPT !.pc = "raised", !.raised = dhk.answers[j].raised]
       \/ \* lines 145-156: the records in the order of the jobs
          /\ dhk.pc = "reassemble"
          /\ dhk' = [dhk EXCEPT !.pc = "reassembled",
                                !.all_raw = reassemble(dhk.results_by_key, dhk.n, dhk.include_cargo)]
    /\ UNCHANGED <<m, q, calls, k, requests, ps, ref, prev, last, race, hk, rec, stat, datef, rstr, alias, bulk, usd, dko>>

SpecDumpHK == DumpHKInit /\ [][DumpHKNext]_vars
(***************************************************************************)
(* Specification SpecBulkDump: dump_us_flights.main over up to MaxMonths   *)
(* months, each download answered by an archive or failing                 *)
(***************************************************************************)
BulkDumpInit ==
    LET Row(month, delay) ==
            [IATA_Code_Marketing_Airline |-> <<"C", "X">>,
             Flight_Number_Marketing_Airline |-> <<"8", "8">>,
             IATA_Code_Operating_Airline |-> <<"n", "a", "n">>,
             Flight_Number_Operating_Airline |-> <<"n", "a", "n">>,
             FlightDate |-> <<"2", "0", "2", "5", "-">> \o format_d(month, 2) \o <<"-", "0", "1">>,
             CRSDepTime |-> <<"8", "3", "0">>, Origin |-> <<"J", "F", "K">>,
             Dest |-> <<"L", "A", "X">>, Cancelled |-> <<"0", ".", "0", "0">>,
             Diverted |-> <<"0", ".", "0", "0">>, ArrTime |-> <<"9", "0", "5">>,
             ArrDelay |-> delay, DepTime |-> <<"7">>]
        Answers(month) ==
            {[kind |-> x, table |-> <<>>] :
                 x \in {"timeout", "http_error", "not_zip", "zip_without_csv", "zip"}}
            \cup {[kind |-> "zip", table |-> <<Row(month, d)>>] :
                      d \in {<<"-", "5", ".", "0", "0">>, <<"i", "n", "f">>}}
    IN  /\ \E n \in 1..MaxMonths, mode \in {"data_dir", "output", "stdout"} :
           \E answers \in [1..n -> UNION {Answers(mo) : mo \in 1..n}] :
              /\ \A mo \in 1..n : answers[mo] \in Answers(mo)
              /\ usd = [pc |-> "download", mode |-> mode, answers |-> answers, i |-> 1,
                        all_dfs |-> <<>>, errors |-> <<>>, exit |-> 0, written |-> <<>>]
        /\ RouteAtRest /\ QueryAtRest /\ KoreaAtRest /\ StatusAtRest /\ RefAtRest /\ race = IdleRace /\ hk = IdleHK /\ rec = [pc |-> "idle"] /\ stat = [pc |-> "idle"] /\ datef = [pc |-> "idle"] /\ rstr = [pc |-> "idle"] /\ alias = [pc |-> "idle"] /\ bulk = [pc |-> "idle"] /\ dhk = [pc |-> "idle"] /\ dko = [pc |-> "idle"]

BulkDumpNext ==
    /\ \/ \* lines 214-224: one month of the loop; `except Exception` logs and goes on
          /\ usd.pc = "download"
          /\ LET raw_df == download_month(usd.answers[usd.i])
                 normalized == IF raw_df.raised # None THEN [raised |-> raw_df.raised, rows |-> <<>>]
                               ELSE normalize(raw_df.df)
                 next == IF usd.i = Len(usd.answers) THEN "loop_done" ELSE "download"
             IN  usd' = IF normalized.raised # None
                        THEN [usd EXCEPT !.pc = next, !.i = @ + 1,
                                         !.errors = Append(@, <<usd.i, normalized.raised>>)]
                        ELSE [usd EXCEPT !.pc = next, !.i = @ + 1,
                                         !.all_dfs = Append(@, <<usd.i, normalized.rows>>)]
       \/ \* lines 226-248: nothing downloaded, or the output of what was
          /\ usd.pc = "loop_done"
          /\ LET combined[j \in 0..Len(usd.all_dfs)] ==
                     IF j = 0 THEN <<>> ELSE combined[j - 1] \o usd.all_dfs[j][2]
                 rows == combined[Len(usd.all_dfs)]
                 files == {<<rows[j].date, SelectSeq(rows, LAMBDA r : r.date = rows[j].date)>> :
                               j \in 1..Len(rows)}
             IN  usd' = IF usd.all_dfs = <<>>
                        THEN [usd EXCEPT !.pc = "exited", !.exit = 1]
                        ELSE [usd EXCEPT !.pc = "exited",
                                         !.written = IF usd.mode = "data_dir" THEN <<files>>
                                                     ELSE <<rows>>]
    /\ UNCHANGED <<m, q, calls, k, requests, ps, ref, prev, last, race, hk, rec, stat, datef, rstr, alias, bulk, dhk, dko>>

SpecBulkDump == BulkDumpInit /\ [][BulkDumpNext]_vars
(***************************************************************************)
(* Specification SpecDumpKorea: up to MaxRuns runs of                      *)
(* dump_korea_flights.main on days 1..MaxDay, the two futures handed over  *)
(* in either order                                                         *)
(***************************************************************************)
DumpKoreaInit ==
    /\ \E mode \in {"data_dir", "output", "stdout"} :
          dko = [pc |-> "start", mode |-> mode, runs |-> 0, today |-> 1,
                 answers |-> <<>>, collected |-> {}, first |-> 0, all_raw |-> <<>>,
                 raised |-> None, written |-> <<>>,
                 file |-> <<>>, before |-> <<>>, dir |-> <<>>, latest |-> <<>>]
    /\ RouteAtRest /\ QueryAtRest /\ KoreaAtRest /\ StatusAtRest /\ RefAtRest /\ race = IdleRace /\ hk = IdleHK /\ rec = [pc |-> "idle"] /\ stat = [pc |-> "idle"] /\ datef = [pc |-> "idle"] /\ rstr = [pc |-> "idle"] /\ alias = [pc |-> "idle"] /\ bulk = [pc |-> "idle"] /\ usd = [pc |-> "idle"] /\ dhk = [pc |-> "idle"]

DumpKoreaNext ==
    /\ \/ \* lines 64-78: a run on the same or a later day; what the two fetches
          \* of fetch_one return (records with date = today) or raise
          /\ dko.pc = "start" /\ dko.runs < MaxRuns
          /\ \E today \in dko.today..MaxDay :
                LET R(origin, flight_no, status) ==
                        [origin |-> origin, flight_no |-> flight_no, status |-> status,
                         date |-> today]
                    ok(raw) == [raised |-> None, raw |-> raw]
                    failed == [raised |-> "Timeout", raw |-> <<>>]
                IN  \E departures \in {ok(<<>>), ok(<<R("ICN", "KE1", "Departed")>>),
                                       ok(<<R("ICN", "KE1", "NA")>>), failed},
                       arrivals \in {ok(<<>>), ok(<<R("NRT", "OZ2", "Arrived")>>),
                                     ok(<<R("NRT", "OZ2", "Arrived"), R("PVG", "OZ3", None)>>),
                                     failed} :
                       dko' = [dko EXCEPT !.pc = "collect", !.today = today,
                                          !.answers = <<departures, arrivals>>,
                                          !.collected = {}, !.first = 0, !.all_raw = <<>>,
                                          !.raised = None, !.written = <<>>]
       \/ \* lines 79-86: as_completed hands over a future whose fetch returned
          /\ dko.pc = "collect"
          /\ \E j \in {1, 2} \ dko.collected :
                /\ dko.answers[j].raised = None
                /\ dko' = [dko EXCEPT !.all_raw = @ \o dko.answers[j].raw,
                                      !.collected = @ \cup {j},
                                      !.first = IF @ = 0 THEN j ELSE @,
                                      !.pc = IF dko.collected \cup {j} = {1, 2}
                                             THEN "convert" ELSE "collect"]
       \/ \* lines 87-89: a future whose fetch raised: logged, raised again
          /\ dko.pc = "collect"
          /\ \E j \in {1, 2} \ dko.collected :
                /\ dko.answers[j].raised # None
                /\ dko' = [dko EXCEPT !.pc = "start", !.runs = @ + 1,
                                      !.raised = dko.answers[j].raised]
       \/ \* lines 91-114: conversion and output
          /\ dko.pc = "convert"
          /\ LET \* raw_to_flight, then _to_dataframe: the columns the rows are told apart by
                 new_df == [i \in 1..Len(dko.all_raw) |->
                               [origin |-> dko.all_raw[i].origin,
                                flight_no |-> dko.all_raw[i].flight_no,
                                status |-> dko.all_raw[i].status,
                                date |-> date_str(dko.all_raw[i].date)]]
                 new_dates == {new_df[i].date : i \in 1..Len(new_df)}
                 old_df == read_csv(dko.file[1])
                 kept_df == SelectSeq(old_df, LAMBDA r : r.date \notin new_dates)
                 df == IF dko.file # <<>> THEN kept_df \o new_df ELSE new_df
             IN  dko' = [dko EXCEPT
                            !.pc = "start", !.runs = @ + 1, !.written = <<to_csv(new_df)>>,
                            !.before = dko.file,
                            !.file = IF dko.mode = "output" THEN <<to_csv(df)>> ELSE @,
                            !.dir = IF dko.mode = "data_dir"
                                    THEN (date_str(dko.today) :> to_csv(new_df)) @@ @ ELSE @,
                            !.latest = IF new_df # <<>>
                                       THEN (date_str(dko.today) :> to_csv(new_df)) @@ @
                                       ELSE @]
    /\ UNCHANGED <<m, q, calls, k, requests, ps, ref, prev, last, race, hk, rec, stat, datef, rstr, alias, bulk, usd, dhk>>

SpecDumpKorea == DumpKoreaInit /\ [][DumpKoreaNext]_vars
(***************************************************************************)
(* Properties of AuditService._matches_route and AuditService.query        *)
(***************************************************************************)
\* The sequences of ss, one after the other.
RECURSIVE Concat(_)
Concat(ss) == IF ss = <<>> THEN <<>> ELSE Head(ss) \o Concat(Tail(ss))

\* The pairs a filter stands for: (origin, destination) and, only when
\* bidirectional, (destination, origin).
ClaimPairs(route) ==
    {<<route.origin, route.destination>>}
    \cup (IF route.bidirectional THEN {<<route.destination, route.origin>>} ELSE {})

\* A side of a filter that is absent or empty.
Wildcard(x) == x \in {None, ""}

\* The flight fits one of the filter's pairs, a wildcard side fitting anything.
ClaimMatches(flight, route) ==
    \E pair \in ClaimPairs(route) :
        /\ Wildcard(pair[1]) \/ flight.origin = pair[1]
        /\ Wildcard(pair[2]) \/ flight.destination = pair[2]

\* C1: _matches_route(flight, filter) is true exactly when the flight fits the
\* pair (origin, destination) or, only if bidirectional, the reversed pair, an
\* absent or empty side of the pair fitting every airport; TPE->HKG matches
\* RouteFilter(HKG, TPE, bidirectional=True) and not the same filter with
\* bidirectional=False.
C1_MatchesRoute ==
    m.pc = "done" =>
        /\ m.result = ClaimMatches(m.flight, m.route)
        /\ (m.flight.origin = "TPE" /\ m.flight.destination = "HKG"
            /\ m.route.origin = "HKG" /\ m.route.destination = "TPE")
           => (m.result = m.route.bidirectional)

C1_Witness ==
    /\ m.pc = "done"
    /\ m.flight.origin = "TPE" /\ m.flight.destination = "HKG"
    /\ m.route = RouteFilter("HKG", "TPE", TRUE)
    /\ m.result

\* The dates of a range in ascending order: start..end, start alone when the
\* end is absent, none when the start is after the end.
ClaimDates(df) ==
    LET end == IF df.end_date = NoDate THEN df.start_date ELSE df.end_date
    IN  [i \in 1..(end - df.start_date + 1) |-> df.start_date + i - 1]

\* The records the source returned to the calls for date d and a direction,
\* in the order it returned them.
Fetched(d, arrival) ==
    Concat([i \in 1..Len(calls) |->
               IF calls[i].flight_date = d /\ calls[i].arrival = arrival
               THEN calls[i].outcome.flights ELSE <<>>])

Converted(raws) == [i \in 1..Len(raws) |-> raw_to_flight(raws[i])]

\* What the claim says query returns: per date ascending, the departures
\* fetch then the arrivals fetch, each in source order, the matching ones only.
ClaimedFlights ==
    LET dates == ClaimDates(q.date_filter)
    IN  Concat([i \in 1..Len(dates) |->
                   SelectSeq(Converted(Fetched(dates[i], FALSE) \o Fetched(dates[i], TRUE)),
                             LAMBDA f : ClaimMatches(f, q.route))])

\* C2: query returns exactly the converted records that match the route
\* filter (none added, none lost, duplicates kept), by date ascending, within
\* a date the departure-fetch records before the arrival-fetch records, each
\* group in the order the source returned it.
C2_QueryReturnsMatchesInFetchOrder ==
    q.pc = "returned" =>
        /\ Len(q.returned) = 1
        /\ q.returned[1].flights = ClaimedFlights

C2_Witness ==
    /\ q.pc = "returned"
    /\ Len(calls) = 4
    /\ Len(q.returned[1].flights) >= 3
    /\ \E i \in 1..Len(calls) : \E j \in 1..Len(calls[i].outcome.flights) :
          ~ClaimMatches(raw_to_flight(calls[i].outcome.flights[j]), q.route)
    /\ \E i, j \in 1..Len(q.returned[1].flights) :
          i # j /\ q.returned[1].flights[i] = q.returned[1].flights[j]

\* C3: a fetch_flights call that raises makes query raise that same error: the
\* failed call is the last call the source receives (no retry, no later
\* direction or date), no QueryResult is returned, and a query that returns
\* has seen no fetch fail.
C3_FetchErrorAbortsQuery ==
    /\ \A i \in 1..Len(calls) :
          calls[i].outcome.error # None =>
              /\ i = Len(calls)
              /\ q.pc = "raised"
              /\ q.error = calls[i].outcome.error
              /\ q.returned = <<>>
    /\ \A i, j \in 1..Len(calls) :
          (calls[i].flight_date = calls[j].flight_date
           /\ calls[i].arrival = calls[j].arrival) => i = j
    /\ q.pc = "raised" => (Len(calls) > 0 /\ calls[Len(calls)].outcome.error # None)

C3_Witness ==
    /\ q.pc = "raised"
    /\ q.error = "Timeout"
    /\ q.all_flights # <<>>
    /\ Len(calls) = 4
    /\ q.returned = <<>>

(***************************************************************************)
(* Properties of KoreaAirportSource                                        *)
(***************************************************************************)
\* The items a page carries, whatever the shape of its "items".
Carried(content, p) ==
    IF content.wrapper \in {"dict_list", "dict_one", "list"}
    THEN [i \in 1..content.n |-> [page |-> p, idx |-> i, flightId |-> FlightIdOf(i)]]
    ELSE <<>>

\* The pages answered so far, in request order.
Answered == [i \in 1..Len(requests) |-> requests[i].outcome.content]

\* The items of every requested page, once each, in page order.
AllCarried == Concat([i \in 1..Len(requests) |-> Carried(Answered[i], i)])

\* The item count accumulated when page i has been read.
RECURSIVE CountThrough(_)
CountThrough(i) == IF i = 0 THEN 0 ELSE CountThrough(i - 1) + Len(Carried(Answered[i], i))

\* The pagination loop has ended without an exception.
PagesDone ==
    \/ k.pc = "pages_done"
    \/ k.pc = "returned" /\ ~k.cargo
    \/ k.pc = "raised" /\ k.error = "TypeError"

\* C4: fetch_flights requests the pages consecutively from page 1, stops only
\* when the accumulated count is at least the total the provider reported or
\* a page returned zero items (pages that omit totalCount included), and its
\* result holds every item of every requested page exactly once in page order.
C4_FullyDrained ==
    /\ \A i \in 1..Len(requests) : requests[i].request.pageNo = i
    /\ PagesDone =>
          /\ k.all_items = AllCarried
          /\ LET lastPage == Answered[Len(requests)]
             IN  \/ Carried(lastPage, Len(requests)) = <<>>
                 \/ /\ lastPage.totalCount.kind = "int"
                    /\ Len(k.all_items) >= lastPage.totalCount.val
    /\ (k.pc = "returned" /\ ~k.cargo) => k.flights = AllCarried

\* The total a page reports to the loop: a missing totalCount counts as 0.
ReportedTotal(content) ==
    IF content.totalCount.kind = "int" THEN content.totalCount.val ELSE 0

RECURSIVE MaxReported(_)
MaxReported(i) ==
    IF i = 0 THEN 0
    ELSE LET before == MaxReported(i - 1)
         IN  IF ReportedTotal(Answered[i]) > before THEN ReportedTotal(Answered[i]) ELSE before

\* C5: the pagination loop ends against a provider whose totalCount is wrong:
\* a page with zero items ends it at once and is the last page requested, the
\* loop goes on to another page only while the accumulated count is below the
\* total just reported, and so the number of requests never exceeds the
\* largest total reported (one request at least).
C5_PaginationTerminates ==
    /\ \A i \in 1..Len(requests) :
          (requests[i].outcome.error = None /\ Carried(Answered[i], i) = <<>>)
              => (i = Len(requests) /\ PagesDone)
    /\ \A i \in 1..Len(requests) :
          (i < Len(requests) \/ k.pc = "paging")
              => CountThrough(i) < ReportedTotal(Answered[i])
    /\ Len(requests) <= (IF MaxReported(Len(requests)) > 1
                         THEN MaxReported(Len(requests)) ELSE 1)

C5_Witness ==
    /\ PagesDone
    /\ Len(requests) = 3
    /\ Carried(Answered[3], 3) = <<>>
    /\ ReportedTotal(Answered[2]) > Len(k.all_items)
    /\ ReportedTotal(Answered[3]) > Len(k.all_items)

\* C6: constructing KoreaAirportSource with no or an empty api_key while
\* KOREA_DATA_API_KEY is unset or empty raises inside the constructor; no
\* instance has an empty credential and no request carries an empty serviceKey.
C6_MissingKeyFailsConstruction ==
    /\ (k.pc # "none" /\ k.api_key_arg \in {None, ""} /\ k.env \in {None, ""})
          => (k.pc = "config_error" /\ k.error = "ValueError")
    /\ k.pc \notin {"none", "config_error"} => k.api_key \notin {None, ""}
    /\ \A i \in 1..Len(requests) : requests[i].request.serviceKey \notin {None, ""}

C6_Witness ==
    /\ k.pc = "config_error"
    /\ k.api_key_arg = ""
    /\ k.env = ""
    /\ requests = <<>>

\* C7: fetch_flights with cargo=True returns an empty sequence for every date
\* and direction, without raising and without issuing any HTTP request.
C7_CargoIsEmpty ==
    k.cargo =>
        /\ k.pc = "returned"
        /\ k.flights = <<>>
        /\ k.error = None
        /\ requests = <<>>

C7_Witness ==
    /\ k.pc = "returned"
    /\ k.cargo
    /\ k.arrival
    /\ k.flight_date = MaxDay
    /\ k.flights = <<>>

(***************************************************************************)
(* C8: the grammar of parse_status                                         *)
(***************************************************************************)
AllWhitespace(s) == \A i \in 1..Len(s) : s[i] \in Whitespace

\* What the grammar gives for the parts of a status string.  strict: the parts
\* are joined by exactly one space, the hour has two digits and so have the
\* day and the month; otherwise any non-empty run of whitespace joins them
\* and the hour, the day and the month have one or two digits.
GrammarResult(p, strict) ==
    LET joined(s) == IF strict THEN s = <<" ">> ELSE s # <<>> /\ AllWhitespace(s)
        time_ok == p.time.form = "HH:MM" \/ (~strict /\ p.time.form = "H:MM")
        date_ok == p.date.form = "DD/MM/YYYY" \/ (~strict /\ p.date.form = "D/M/YYYY")
        rest == p.sep \o p.time.chars \o p.sep2 \o p.date.chars \o p.trail
    IN  IF p.kw.type \in {"cancelled", "delayed"}
        THEN IF AllWhitespace(rest) THEN ParsedStatus(p.kw.type, NoneS, NoneS) ELSE Unknown
        ELSE IF p.kw.type \in {"departed", "arrived", "at_gate"} /\ joined(p.sep) /\ time_ok
        THEN IF p.date.form = "empty" /\ AllWhitespace(p.sep2 \o p.trail)
             THEN ParsedStatus(p.kw.type, p.time.chars, NoneS)
             ELSE IF date_ok /\ joined(p.sep2) /\ AllWhitespace(p.trail)
             THEN ParsedStatus(p.kw.type, p.time.chars, p.date.iso)
             ELSE Unknown
        ELSE Unknown

GrammarHolds(strict) ==
    ps.pc = "done" =>
        ps.result = IF ps.status.kind # "str" THEN Unknown ELSE GrammarResult(ps.parts, strict)

Fold(chars) == lower(strip(chars))

Blank(arg) == arg.kind = "none" \/ strip(arg.chars) = <<>>

\* b is a itself, or differs from it in letter case or surrounding whitespace.
Variant(a, b) == a = b \/ (a.kind = "str" /\ b.kind = "str" /\ Fold(a.chars) = Fold(b.chars))

KeysOf(table) == {table[i].key : i \in DOMAIN table}

BundledAirlines == IF ref.airlines_file = "ok" THEN AirlinesJson ELSE <<>>
BundledAirports == IF ref.airports_file = "ok" THEN AirportsJson ELSE <<>>

\* The codes a lookup function knows, folded to lower case.
KnownCodes(fn) ==
    IF fn = "get_airline"
    THEN {lower(c) : c \in KeysOf(BundledAirlines) \cup KeysOf(AIRLINE_OVERRIDES)}
    ELSE IF fn = "get_airport"
    THEN {lower(c) : c \in KeysOf(BundledAirports) \cup KeysOf(AIRPORT_OVERRIDES)}
    ELSE {lower(BundledAirlines[i].row.iata) :
              i \in {j \in DOMAIN BundledAirlines :
                         /\ BundledAirlines[j].key \notin KeysOf(AIRLINE_OVERRIDES)
                         /\ BundledAirlines[j].row.iata # <<>>}}

\* C9: get_airline, get_airport and iata_to_icao give the same result for a
\* code, for a repeated call and for any variant of the code that differs in
\* letter case or surrounding whitespace; they return absent for empty,
\* whitespace-only, absent and unknown codes, and a record for a known one.
C9_LookupsFoldCaseAndWhitespace ==
    last.fn # "none" =>
        /\ (prev.fn = last.fn /\ Variant(prev.arg, last.arg)) => prev.result = last.result
        /\ Blank(last.arg) => last.result = <<>>
        /\ ~Blank(last.arg) =>
               (last.result = <<>> <=> Fold(last.arg.chars) \notin KnownCodes(last.fn))

C9_Witness ==
    /\ prev.fn = "get_airline"
    /\ last.fn = "get_airline"
    /\ prev.arg # last.arg
    /\ strip(last.arg.chars) # last.arg.chars
    /\ Variant(prev.arg, last.arg)
    /\ last.result # <<>>
    /\ prev.result = last.result

(***************************************************************************)
(* C10: the caches are the bundled tables overlaid by the overrides        *)
(***************************************************************************)
\* table holds each key of the two tables once, with the override row where
\* the key has one and the bundled row otherwise.
IsOverlay(table, bundled, overrides) ==
    /\ KeysOf(table) = KeysOf(bundled) \cup KeysOf(overrides)
    /\ \A i, j \in DOMAIN table : table[i].key = table[j].key => i = j
    /\ \A i \in DOMAIN table :
           table[i].row = IF HasKey(overrides, table[i].key)
                          THEN RowOf(overrides, table[i].key)
                          ELSE RowOf(bundled, table[i].key)

\* index maps each IATA code of the table to the first ICAO key that has it.
IsIataIndex(index, table) ==
    /\ KeysOf(index) = {table[i].row.iata : i \in DOMAIN table} \ {<<>>}
    /\ \A i, j \in DOMAIN index : index[i].key = index[j].key => i = j
    /\ \A n \in DOMAIN index :
           \E i \in DOMAIN table :
               /\ table[i].key = index[n].row
               /\ table[i].row.iata = index[n].key
               /\ \A j \in 1..(i - 1) : table[j].row.iata # index[n].key

CachesAreOverlays ==
    /\ ref.airlines_reads <= 1
    /\ ref.airports_reads <= 1
    /\ (ref.airlines_cache # <<>>) <=> (ref.airlines_reads = 1)
    /\ (ref.airports_cache # <<>>) <=> (ref.airports_reads = 1)
    /\ ref.airlines_cache # <<>> =>
           IsOverlay(ref.airlines_cache[1], BundledAirlines, AIRLINE_OVERRIDES)
    /\ ref.airports_cache # <<>> =>
           IsOverlay(ref.airports_cache[1], BundledAirports, AIRPORT_OVERRIDES)
    /\ ref.iata_to_icao_cache # <<>> =>
           /\ ref.airlines_cache # <<>>
           /\ IsIataIndex(ref.iata_to_icao_cache[1], ref.airlines_cache[1])

\* A lookup of a key that has an override returns the override entry.
OverrideReturned ==
    /\ (last.fn = "get_airline" /\ ~Blank(last.arg)
            /\ HasKey(AIRLINE_OVERRIDES, upper(strip(last.arg.chars)))) =>
           last.result = <<[icao |-> RowOf(AIRLINE_OVERRIDES, upper(strip(last.arg.chars))).icao,
                            name |-> RowOf(AIRLINE_OVERRIDES, upper(strip(last.arg.chars))).name]>>
    /\ (last.fn = "get_airport" /\ ~Blank(last.arg)
            /\ HasKey(AIRPORT_OVERRIDES, upper(strip(last.arg.chars)))) =>
           last.result = <<[iata |-> RowOf(AIRPORT_OVERRIDES, upper(strip(last.arg.chars))).iata,
                            name |-> RowOf(AIRPORT_OVERRIDES, upper(strip(last.arg.chars))).name]>>

\* A step reads a file only while its cache is unset, and it does so in the
\* first lookup that consults the table; a cache that is set never changes.
LoadedOnceThenFrozen ==
    /\ ref.airlines_cache # <<>> => ref.airlines_cache' = ref.airlines_cache
    /\ ref.airports_cache # <<>> => ref.airports_cache' = ref.airports_cache
    /\ ref.iata_to_icao_cache # <<>> => ref.iata_to_icao_cache' = ref.iata_to_icao_cache
    /\ (last'.fn \in {"get_airline", "iata_to_icao"} /\ last'.arg.kind = "str"
            /\ last'.arg.chars # <<>>) => ref.airlines_cache' # <<>>
    /\ (last'.fn = "get_airport" /\ last'.arg.kind = "str" /\ last'.arg.chars # <<>>) =>
           ref.airports_cache' # <<>>
    /\ (last'.fn = "iata_to_icao" /\ last'.arg.kind = "str" /\ last'.arg.chars # <<>>) =>
           ref.iata_to_icao_cache' # <<>>
    /\ ref.airlines_file' = ref.airlines_file
    /\ ref.airports_file' = ref.airports_file

\* C10: after any sequence of lookups the airline and airport tables are the
\* bundled dataset overlaid by the override table, the override entry being
\* the one returned for a key in both; each bundled file is read at most
\* once, by the first lookup that consults its table, and no later lookup
\* changes the merged table or the IATA reverse index.
C10_CachesAreOverlaysReadOnce ==
    [](CachesAreOverlays /\ OverrideReturned) /\ [][LoadedOnceThenFrozen]_vars

C10_Witness ==
    /\ prev.fn = "iata_to_icao"
    /\ prev.result # <<>>
    /\ last.fn = "get_airline"
    /\ last.arg.kind = "str"
    /\ upper(strip(last.arg.chars)) = <<"H", "G", "B">>
    /\ ref.airlines_file = "ok"
    /\ ref.airlines_reads = 1
    /\ last.result = <<[icao |-> "HGB", name |-> "Greater Bay Airlines"]>>

(***************************************************************************)
(* C11: concurrent first access to the reference caches                    *)
(***************************************************************************)
\* What the call of thread t returns when no other thread runs.
SequentialResult(t) ==
    LET fresh == [IdleRef EXCEPT !.airlines_file = race.airlines_file]
        f == race.th[t]
    IN  IF f.fn = "iata_to_icao" THEN iata_to_icao(fresh, f.arg).result
        ELSE get_airline(fresh, f.arg).result

\* C11: when two threads make their first lookups concurrently with no prior
\* populate, every lookup returns what it returns against the fully merged
\* table and the fully built IATA index.
C11_ConcurrentFirstAccessSafe ==
    \A t \in Threads : race.th[t].pc = "done" => race.th[t].result = SequentialResult(t)

(***************************************************************************)
(* Properties of HKAirportSource                                           *)
(***************************************************************************)
\* The value d holds under the first of the keys that has a value accepted by ok.
FirstValue(d, keys, ok(_)) ==
    LET at(key) == d[2][CHOOSE e \in 1..Len(d[2]) : d[2][e][1] = key][2]
        has == {i \in 1..Len(keys) : (\E e \in 1..Len(d[2]) : d[2][e][1] = keys[i]) /\ ok(at(keys[i]))}
    IN  IF has = {} THEN <<"null">>
        ELSE at(keys[CHOOSE i \in has : \A j \in has : i <= j])

NotBlank(v) == v[1] = "str" /\ strip(v[2]) # <<>>

\* A scalar field of an item or entry: its first alias with a value that is not
\* blank, stripped; NoneS when there is none.
ClaimField(d, keys) ==
    LET v == FirstValue(d, keys, NotBlank)
    IN  IF v[1] = "null" THEN NoneS ELSE strip(v[2])

\* The far end of an item's route: a list stands for its first element.
ClaimPort(item, arrival) ==
    LET ok(v) == NotBlank(v) \/ (v[1] = "list" /\ v[2] # <<>>)
        v == FirstValue(item,
                        IF arrival
                        THEN <<"Origin", "origin", "Port of origin", "portOfOrigin",
                               "From", "from", "dep_iata", "dep">>
                        ELSE <<"Destination", "destination", "Port of destination",
                               "portOfDestination", "To", "to", "arr_iata", "arr">>,
                        ok)
    IN  CASE v[1] = "null" -> NoneS
          [] v[1] = "str" -> strip(v[2])
          [] v[1] = "list" -> IF NotBlank(v[2][1]) THEN strip(v[2][1][2]) ELSE NoneS

\* The flight-number sub-entries of an item.
ClaimEntries(item) ==
    LET ok(v) == v[1] # "null" /\ v[2] # <<>>
        v == FirstValue(item, <<"flight", "Flight number list", "flightNumberList",
                                "flightNumbers", "flights">>, ok)
    IN  CASE v[1] = "list" -> v[2]
          [] v[1] = "dict" -> <<v>>
          [] OTHER -> <<>>

NumberOf(e) == ClaimField(e, <<"No", "no", "FlightNo", "flightNo", "number", "flight_number">>)
AirlineOf(e) == ClaimField(e, <<"Airline", "airline", "carrier", "Carrier">>)
Usable(e) == e[1] = "dict" /\ (NumberOf(e) # NoneS \/ AirlineOf(e) # NoneS)
Blanked(s) == IF s = NoneS THEN <<>> ELSE s

\* Every sub-entry of the item has a flight number or an airline.
FansOut(item) ==
    /\ ClaimEntries(item) # <<>>
    /\ \A j \in 1..Len(ClaimEntries(item)) : Usable(ClaimEntries(item)[j])

\* The record of one entry of an item: the entry's number and airline, the rest the item's.
ClaimRecord(item, number, airline, o, d, day) ==
    [origin |-> o, destination |-> d, flight_no |-> number, airline |-> airline,
     scheduled_time |-> ClaimField(item, <<"Time", "time", "ScheduledTime", "scheduledTime">>),
     status |-> ClaimField(item, <<"Status", "status">>),
     date |-> day,
     gate |-> ClaimField(item, <<"Gate", "gate">>),
     terminal |-> ClaimField(item, <<"Terminal", "terminal">>),
     cargo |-> None]

ClaimOrigin(item, arrival) == IF arrival THEN ClaimPort(item, TRUE) ELSE <<"H", "K", "G">>
ClaimDestination(item, arrival) == IF arrival THEN <<"H", "K", "G">> ELSE ClaimPort(item, FALSE)

\* One record per sub-entry, in the order of the sub-entries.
FanOut(item, arrival, day) ==
    [j \in 1..Len(ClaimEntries(item)) |->
        ClaimRecord(item, Blanked(NumberOf(ClaimEntries(item)[j])),
                    Blanked(AirlineOf(ClaimEntries(item)[j])),
                    ClaimOrigin(item, arrival), ClaimDestination(item, arrival), day)]

\* The day every record of the call carries: all of a response's date fields are the same.
CarriedDay == IF hk.resp_date = 0 THEN hk.flight_date ELSE hk.resp_date

C13_SameRecordsInEveryShape ==
    hk.pc # "call" =>
        hk.flights = hk_fetch_flights(<<"list", hk.items>>, hk.flight_date, hk.arrival)

\* The item has a flight field of its own.
OwnFlight(item) ==
    \E key \in {"No", "FlightNo", "Airline"} :
        FirstValue(item, <<key>>, LAMBDA v : v[1] # "null" /\ v[2] # <<>>)[1] # "null"

\* The entries of an item that give records: its usable sub-entries, or the item
\* itself when it has no sub-entries and a usable flight field of its own.
UsableEntries(item) ==
    SelectSeq(IF ClaimEntries(item) = <<>> /\ OwnFlight(item) THEN <<item>> ELSE ClaimEntries(item),
              Usable)

\* The records an item stands for: one per usable entry, and when there is none a
\* single record with an empty flight number and airline that keeps the item's route.
ClaimRecords(item, arrival, day) ==
    IF UsableEntries(item) # <<>>
    THEN [j \in 1..Len(UsableEntries(item)) |->
            ClaimRecord(item, Blanked(NumberOf(UsableEntries(item)[j])),
                        Blanked(AirlineOf(UsableEntries(item)[j])),
                        ClaimOrigin(item, arrival), ClaimDestination(item, arrival), day)]
    ELSE <<ClaimRecord(item, <<>>, <<>>, Blanked(ClaimOrigin(item, arrival)),
                       Blanked(ClaimDestination(item, arrival)), day)>>

C15_RecordsCarryQueryDate ==
    /\ hk.pc # "call" => \A i \in 1..Len(hk.flights) : hk.flights[i].date = hk.flight_date
    /\ hk.pc = "converted" =>
          \A i \in 1..Len(hk.converted) : hk.converted[i].date = hk.flight_date

(***************************************************************************)
(* Properties of raw_to_flight and of the Incheon adapter's _parse_item    *)
(***************************************************************************)
\* The fields of a time string: what stands between its colons.
RECURSIVE ClockFields(_)
ClockFields(s) ==
    IF \A i \in 1..Len(s) : s[i] # ":" THEN <<s>>
    ELSE LET c == CHOOSE i \in 1..Len(s) : s[i] = ":" /\ \A j \in 1..(i - 1) : s[j] # ":"
         IN  <<SubSeq(s, 1, c - 1)>> \o ClockFields(SubSeq(s, c + 1, Len(s)))

\* The fields are hours, minutes and perhaps seconds, of the given widths.
IsClock(s, widths) ==
    LET f == ClockFields(s)
        max == <<23, 59, 59>>
    IN  /\ s # NoneS
        /\ Len(f) \in {2, 3}
        /\ \A i \in 1..Len(f) : /\ Len(f[i]) \in widths
                                /\ \A j \in 1..Len(f[i]) : IsDigit(f[i][j])
                                /\ int_of(f[i]) <= max[i]

\* The date-time a time string stands for on a day.
ClockOn(s, day) ==
    LET f == ClockFields(s)
    IN  [date |-> day, hour |-> int_of(f[1]), minute |-> int_of(f[2]),
         second |-> IF Len(f) = 3 THEN int_of(f[3]) ELSE 0]

\* raw_to_flight has been called on rec.raw.
Called == rec.raw # <<>> /\ rec.pc \in {"flight", "raised"}

\* C16: raw_to_flight of every adapter never raises: the Flight's scheduled_time
\* is the time of a valid 'HH:MM' or 'HH:MM:SS' string on raw.date, is absent
\* when raw.scheduled_time is absent, empty or no time under any format, and
\* every other field is the RawFlight's.
C16_RawToFlightNeverRaises ==
    Called =>
        /\ rec.pc = "flight"
        /\ LET raw == rec.raw[1]
               flight == rec.flight[1]
               t == raw.scheduled_time
           IN  /\ IsClock(t, {2}) => flight.scheduled_time = <<ClockOn(t, raw.date)>>
               /\ (t = NoneS \/ t = <<>> \/ ~IsClock(t, {1, 2})) => flight.scheduled_time = <<>>
               /\ \A f \in DOMAIN raw \ {"scheduled_time"} : flight[f] = raw[f]

\* The ICAO code the reference table maps a provider's airline code to, the code
\* itself when the table has no mapping.
Normalized(code) ==
    LET found == iata_to_icao(IdleRef, [kind |-> "str", chars |-> code]).result
    IN  IF found # <<>> THEN found[1] ELSE code

\* C17: the airline of a Flight is the ICAO code iata_to_icao maps the provider's
\* airline code to when there is a mapping and the provider's code otherwise, and
\* it is not empty when the provider gave a code.
C17_AirlineIsNormalized ==
    hk.pc = "converted" =>
        \A i \in 1..Len(hk.converted) :
            /\ hk.converted[i].airline = Normalized(hk.flights[i].airline)
            /\ hk.flights[i].airline # <<>> => hk.converted[i].airline # <<>>

\* A field of an Incheon item as _parse_item reads it: "" when missing, stripped.
ItemField(item, key) ==
    LET v == FirstValue(item, <<key>>, LAMBDA x : TRUE)
    IN  IF v[1] = "null" THEN <<>> ELSE strip(v[2])

\* _parse_item has been called on rec.item.
Parsed == rec.item[2] # <<>> /\ rec.pc # "item"

\* The operating fields the claim gives an item.
Operating(item, kw) ==
    LET master == ItemField(item, "masterflightid")
    IN  IF ItemField(item, "codeshare") # <<>> /\ master # <<>>
        THEN /\ kw.operating_flight_no = master
             /\ kw.operating_airline = Normalized(SubSeq(master, 1, IF Len(master) < 2 THEN Len(master) ELSE 2))
        ELSE /\ kw.operating_flight_no = kw.flight_no
             /\ kw.operating_airline = kw.airline

\* C18: every Incheon item with a flightId gives a RawFlight; when the item's
\* codeshare flag and master flight id are both non-empty its operating_flight_no
\* is the master flight id and its operating_airline the ICAO-normalized prefix of
\* the master flight id, otherwise they are its own flight_no and airline.
C18_OperatingFlight ==
    (Parsed /\ ItemField(rec.item, "flightId") # <<>>) =>
        /\ rec.pc = "raw"
        /\ rec.raw # <<>>
        /\ rec.raw[1].flight_no = ItemField(rec.item, "flightId")
        /\ Operating(rec.item, rec.raw[1])

(***************************************************************************)
(* Properties of compute_stats and DateFilter                              *)
(***************************************************************************)
\* The sum of the counts of a breakdown.
RECURSIVE SumOf(_)
SumOf(d) == IF d = <<>> THEN 0 ELSE Head(d).row + SumOf(Tail(d))

\* No key occurs twice in a breakdown.
KeysOnce(d) == \A i, j \in 1..Len(d) : d[i].key = d[j].key => i = j

\* The count a breakdown has under a key, 0 without the key.
CountUnder(d, key) ==
    IF \E i \in 1..Len(d) : d[i].key = key
    THEN d[CHOOSE i \in 1..Len(d) : d[i].key = key].row
    ELSE 0

\* The flights of the call that satisfy P.
Having(P(_)) == {i \in 1..Len(stat.flights) : P(stat.flights[i])}

NoStatus(f) == f.status = NoneS \/ \A i \in 1..Len(f.status) : f.status[i] \in Whitespace

\* What holds of every breakdown but by_airline: total_flights is the number of
\* flights; by_date, by_route and status_summary sum to it and have one key per
\* date, route and status; the flights without a status are under "Unknown";
\* by_hour leaves out exactly the flights without a scheduled_time.
BreakdownsCount(s) ==
    /\ s.total_flights = Len(stat.flights)
    /\ \A d \in {s.by_airline, s.by_date, s.by_route, s.status_summary} : KeysOnce(d)
    /\ KeysOnce(s.by_hour)
    /\ SumOf(s.by_date) = s.total_flights
    /\ Len(s.by_date) = Cardinality({stat.flights[i].date : i \in 1..Len(stat.flights)})
    /\ SumOf(s.by_route) = s.total_flights
    /\ Len(s.by_route) = Cardinality({<<stat.flights[i].origin, stat.flights[i].destination>> :
                                         i \in 1..Len(stat.flights)})
    /\ SumOf(s.status_summary) = s.total_flights
    /\ CountUnder(s.status_summary, <<"U", "n", "k", "n", "o", "w", "n">>)
          = Cardinality(Having(LAMBDA f : NoStatus(f) \/ strip(f.status) = <<"U", "n", "k", "n", "o", "w", "n">>))
    /\ SumOf(s.by_hour) = Cardinality(Having(LAMBDA f : f.scheduled_time # <<>>))
    /\ \A h \in 0..23 :
          CountUnder(s.by_hour, h)
             = Cardinality(Having(LAMBDA f : f.scheduled_time # <<>> /\ f.scheduled_time[1].hour = h))

\* C19 as stated: every breakdown except by_hour counts every flight once, so
\* by_airline, by_date, by_route and status_summary each sum to total_flights.
C19_EveryBreakdownSumsToTotal ==
    stat.pc = "done" =>
        /\ BreakdownsCount(stat.stats[1])
        /\ SumOf(stat.stats[1].by_airline) = stat.stats[1].total_flights

\* C19, amended: by_date, by_route and status_summary count every flight once;
\* by_airline counts exactly the flights whose airline is not empty, by_hour
\* exactly those with a scheduled_time.
C19_BreakdownsCountEachFlightOnce ==
    stat.pc = "done" =>
        /\ BreakdownsCount(stat.stats[1])
        /\ SumOf(stat.stats[1].by_airline) = Cardinality(Having(LAMBDA f : f.airline # <<>>))
        /\ \A i \in 1..Len(stat.flights) :
              stat.flights[i].airline # <<>> =>
                  CountUnder(stat.stats[1].by_airline, stat.flights[i].airline)
                     = Cardinality(Having(LAMBDA f : f.airline = stat.flights[i].airline))

\* Statistics of three flights, one without an airline and without a time, two
\* of one airline: by_airline has 2 under that airline and nothing else.
C19_Witness ==
    /\ stat.pc = "done"
    /\ Len(stat.flights) = 3
    /\ Cardinality(Having(LAMBDA f : f.airline = <<>> /\ f.scheduled_time = <<>>)) = 1
    /\ stat.stats[1].total_flights = 3
    /\ stat.stats[1].by_airline = <<Entry(<<"C", "P", "A">>, 2)>>
    /\ SumOf(stat.stats[1].by_hour) = 2
    /\ SumOf(stat.stats[1].status_summary) = 3

\* C20: DateFilter.single(d) has start = end = d; past_days(N, until = U) has
\* end = U and end - start = N - 1 days; iter_dates yields every date from the
\* start to the end, both included, once and ascending: the start alone when the
\* end is absent, nothing when the start is after the end.
C20_DateFilterRanges ==
    /\ (datef.pc # "call" /\ datef.how = "single") =>
          datef.filter.start_date = datef.d /\ datef.filter.end_date = datef.d
    /\ (datef.pc # "call" /\ datef.how = "past_days") =>
          /\ datef.until # NoDate => datef.filter.end_date = datef.until
          /\ datef.until = NoDate => datef.filter.end_date = datef.today
          /\ datef.filter.end_date - datef.filter.start_date = datef.days - 1
    /\ datef.pc = "iterated" =>
          LET first == datef.filter.start_date
              final == IF datef.filter.end_date = NoDate THEN first ELSE datef.filter.end_date
          IN  /\ Len(datef.dates) = IF first > final THEN 0 ELSE final - first + 1
              /\ \A i \in 1..Len(datef.dates) : datef.dates[i] = first + i - 1
              /\ \A d \in (first - 1)..(final + 1) :
                    (first <= d /\ d <= final) <=> \E i \in 1..Len(datef.dates) : datef.dates[i] = d

\* The three days until day MaxDay have been yielded in order.
C20_Witness ==
    /\ datef.pc = "iterated"
    /\ datef.how = "past_days"
    /\ datef.days = 3
    /\ datef.until = MaxDay
    /\ datef.dates = <<MaxDay - 2, MaxDay - 1, MaxDay>>

(***************************************************************************)
(* Properties of RouteFilter.from_route_string and of the fetch calls of   *)
(* AuditService.query                                                      *)
(***************************************************************************)
\* The positions of the separator in a route string.
Dashes(s) == {i \in 1..Len(s) : s[i] = "-"}

\* The characters of s at positions lo..hi, uppercased, without the
\* whitespace at either end.
CodeOf(s, lo, hi) ==
    LET body == {i \in lo..hi : s[i] \notin Whitespace}
        first == CHOOSE i \in body : \A j \in body : i <= j
        final == CHOOSE i \in body : \A j \in body : j <= i
    IN  IF body = {} THEN <<>>
        ELSE [x \in 1..(final - first + 1) |-> upper_char(s[first + x - 1])]

\* C21: for a string with exactly one '-', from_route_string returns the
\* filter of the two codes around it, uppercased and trimmed, with the
\* bidirectional flag of the argument (True when it is not given); for every
\* other string it raises ValueError and returns no filter.
C21_FromRouteString ==
    rstr.pc \in {"returned", "raised"} =>
        LET s == rstr.route
        IN  IF Cardinality(Dashes(s)) = 1
            THEN LET i == CHOOSE x \in Dashes(s) : TRUE
                 IN  /\ rstr.pc = "returned"
                     /\ rstr.raised = None
                     /\ Len(rstr.filter) = 1
                     /\ rstr.filter[1].origin = CodeOf(s, 1, i - 1)
                     /\ rstr.filter[1].destination = CodeOf(s, i + 1, Len(s))
                     /\ rstr.filter[1].bidirectional =
                            (rstr.bidirectional = <<>> \/ rstr.bidirectional = <<TRUE>>)
            ELSE /\ rstr.pc = "raised"
                 /\ rstr.raised = "ValueError"
                 /\ rstr.filter = <<>>

\* ' hK-K' without the flag has given the bidirectional filter HK-K.
C21_Witness ==
    /\ rstr.pc = "returned"
    /\ rstr.route = <<" ", "h", "K", "-", "K">>
    /\ rstr.bidirectional = <<>>
    /\ rstr.filter = <<RouteFilter(<<"H", "K">>, <<"K">>, TRUE)>>

\* C22: query fetches each date of the range in ascending order, departures
\* (arrival = False) then arrivals (arrival = True), always with cargo = False:
\* at any moment the calls made are the first ones of that sequence, no date
\* twice and none skipped, and a query that returns has made exactly two calls
\* for each of the k dates.
C22_TwoFetchesPerDate ==
    LET dates == ClaimDates(q.date_filter)
    IN  /\ Len(calls) <= 2 * Len(dates)
        /\ \A i \in 1..Len(calls) :
              /\ calls[i].flight_date = dates[(i + 1) \div 2]
              /\ calls[i].arrival = (i % 2 = 0)
              /\ calls[i].cargo = FALSE
        /\ q.pc = "returned" => Len(calls) = 2 * Len(dates)

\* A query over two dates has returned after four fetches.
C22_Witness ==
    /\ q.pc = "returned"
    /\ q.date_filter = [start_date |-> 1, end_date |-> 2]
    /\ [i \in 1..Len(calls) |-> <<calls[i].flight_date, calls[i].arrival>>]
           = <<<<1, FALSE>>, <<1, TRUE>>, <<2, FALSE>>, <<2, TRUE>>>>

(***************************************************************************)
(* Properties of the Hong Kong adapter's field lookup                      *)
(***************************************************************************)
\* The value under a key of a dict, <<"null">> when the key is missing.
Under(d, key) ==
    IF \E e \in 1..Len(d[2]) : d[2][e][1] = key
    THEN d[2][CHOOSE e \in 1..Len(d[2]) : d[2][e][1] = key][2]
    ELSE <<"null">>

\* What an alias contributes: a string that is not blank, trimmed; for a route
\* field also the first element of a list, when that is not blank, trimmed.
\* Nothing (NoneS) when the alias is to be skipped.
Contribution(v, port) ==
    CASE v[1] = "str" /\ strip(v[2]) # <<>> -> strip(v[2])
      [] port /\ v[1] = "list" /\ v[2] # <<>> /\ v[2][1][1] = "str" /\ strip(v[2][1][2]) # <<>> ->
            strip(v[2][1][2])
      [] OTHER -> NoneS

\* The first alias with a contribution decides the field.
FirstQualifying(d, keys, port) ==
    LET has == {i \in 1..Len(keys) : Contribution(Under(d, keys[i]), port) # NoneS}
    IN  IF has = {} THEN NoneS
        ELSE Contribution(Under(d, keys[CHOOSE i \in has : \A j \in has : i <= j]), port)

\* The aliases of a scalar field hold no list with elements (a case the
\* statement is silent about).
NoFilledList(d) == \A e \in 1..Len(d[2]) : d[2][e][2][1] = "list" => d[2][e][2][2] = <<>>

\* C27: a field lookup returns the value of the first alias, in priority
\* order, that is present and not empty, trimmed; absent values, empty or
\* whitespace strings, empty lists and lists with an empty first element are
\* skipped for the next alias; a route field takes the first element of a
\* non-empty list; the field is absent when no alias qualifies.
C27_FirstQualifyingAlias ==
    alias.pc = "returned" =>
        /\ alias.fn = "_get_str_or_first" =>
              alias.result = FirstQualifying(alias.d, <<"Destination", "destination", "To">>, TRUE)
        /\ (alias.fn = "_get_str" /\ NoFilledList(alias.d)) =>
              alias.result = FirstQualifying(alias.d, <<"Gate", "gate">>, FALSE)

(***************************************************************************)
(* Properties of the bulk-file functions of dump_us_flights.py             *)
(***************************************************************************)
\* The number two digit characters spell.
TwoDigits(a, b) == 10 * (IndexIn(a, DigitChars) - 1) + (IndexIn(b, DigitChars) - 1)

\* C23: _parse_time maps a four-digit 'HHMM' text with HH <= 24 and MM <= 59
\* and a flight date to that time on the same date, hour 24 being hour 0 of
\* the same date; '', 'nan', a four-digit text out of that range and a text of
\* at most four characters that holds a letter give None; no result is on
\* another date and the call does not raise.
C23_ParseTimeSameDate ==
    (bulk.pc # "call" /\ bulk.fn = "_parse_time") =>
        LET s == bulk.hhmm
            fourDigits == Len(s) = 4 /\ \A i \in 1..4 : IsIn(s[i], DigitChars)
            inRange == TwoDigits(s[1], s[2]) <= 24 /\ TwoDigits(s[3], s[4]) <= 59
        IN  /\ bulk.pc = "returned" /\ bulk.raised = None
            /\ (fourDigits /\ inRange) =>
                  bulk.time = <<[date |-> bulk.fl_date,
                                 hour |-> TwoDigits(s[1], s[2]) % 24,
                                 minute |-> TwoDigits(s[3], s[4])]>>
            /\ (fourDigits /\ ~inRange) => bulk.time = <<>>
            /\ (s = <<>> \/ s = <<"n", "a", "n">>) => bulk.time = <<>>
            /\ (\E i \in 1..Len(s) : s[i] \in {"n", "a"}) => bulk.time = <<>>
            /\ bulk.time # <<>> => bulk.time[1].date = bulk.fl_date

\* '2400' on 2025-06-01 has given 2025-06-01 00:00.
C23_Witness ==
    /\ bulk.pc = "returned"
    /\ bulk.fn = "_parse_time"
    /\ bulk.hhmm = <<"2", "4", "0", "0">>
    /\ bulk.time = <<[date |-> [year |-> 2025, month |-> 6, day |-> 1], hour |-> 0, minute |-> 0]>>

\* The text of a column of a row, trimmed; empty when the column is missing or
\* the cell is empty ('nan').
Text(r, key) ==
    IF key \notin DOMAIN r \/ strip(r[key]) = <<"n", "a", "n">> THEN <<>> ELSE strip(r[key])

\* A flag column is set.
FlagSet(r, key) == Text(r, key) \in {<<"1">>, <<"1", ".", "0">>, <<"1", ".", "0", "0">>}

\* A delay text is a decimal number: an optional sign, digits, at most one point.
IsNumber(t) ==
    LET body == IF t # <<>> /\ t[1] \in {"+", "-"} THEN Tail(t) ELSE t
    IN  /\ \E i \in 1..Len(body) : IsDigit(body[i])
        /\ \A i \in 1..Len(body) : IsDigit(body[i]) \/ body[i] = "."
        /\ Cardinality({i \in 1..Len(body) : body[i] = "."}) <= 1

\* A decimal number above zero, and its whole minutes.
IsPositive(t) == t[1] # "-" /\ \E i \in 1..Len(t) : IsDigit(t[i]) /\ t[i] # "0"
WholeMinutes(t) ==
    LET body == IF t[1] \in {"+", "-"} THEN Tail(t) ELSE t
        upto == IF \E i \in 1..Len(body) : body[i] = "."
                THEN (CHOOSE i \in 1..Len(body) : body[i] = ".") - 1 ELSE Len(body)
    IN  int_of(slice(body, 1, upto))

\* The status the precedence gives a row: cancelled, diverted, the arrival
\* delay when it is a number, the departure time, nothing.
StatusByPrecedence(r) ==
    LET arr == Text(r, "ArrTime")
        delay == Text(r, "ArrDelay")
        dep == Text(r, "DepTime")
        plus == <<"+">> \o digits_of(WholeMinutes(delay)) \o <<"m", "i", "n">>
    IN  IF FlagSet(r, "Cancelled") THEN <<"C", "a", "n", "c", "e", "l", "l", "e", "d">>
        ELSE IF FlagSet(r, "Diverted") THEN <<"D", "i", "v", "e", "r", "t", "e", "d">>
        ELSE IF IsNumber(delay) /\ ~IsPositive(delay)
             THEN IF arr # <<>> THEN <<"A", "r", "r", " ">> \o zero_pad(arr, 4)
                  ELSE <<"O", "n", " ", "t", "i", "m", "e">>
        ELSE IF IsNumber(delay)
             THEN IF arr # <<>>
                  THEN <<"A", "r", "r", " ">> \o zero_pad(arr, 4) \o <<" ", "(">> \o plus \o <<")">>
                  ELSE <<"D", "e", "l", "a", "y", "e", "d", " ">> \o plus
        ELSE IF dep # <<>> THEN <<"D", "e", "p", " ">> \o zero_pad(dep, 4)
        ELSE <<>>

\* C28: _build_status never raises and gives every row the status of the
\* precedence: 'Cancelled' when the cancelled flag is set, whatever else the
\* row holds; else 'Diverted' when the diverted flag is set; else the status
\* of the arrival delay when that is a number ('Arr HHMM' or 'On time' up to
\* zero, '+Nmin' above); else 'Dep HHMM' of the departure time; else ''.
C28_StatusPrecedence ==
    (bulk.pc # "call" /\ bulk.fn = "_build_status") =>
        /\ bulk.pc = "returned"
        /\ bulk.status = StatusByPrecedence(bulk.r)

\* The rows of a frame whose FlightDate parses, each as its date and its
\* operating flight, in the order of the frame.
KeptRows(df) ==
    LET kept[i \in 0..Len(df)] ==
            IF i = 0 THEN <<>>
            ELSE LET day == strptime_date(strip(df[i].FlightDate))
                     op == Text(df[i], "IATA_Code_Operating_Airline")
                 IN  IF day = <<>> THEN kept[i - 1]
                     ELSE Append(kept[i - 1],
                                 <<isoformat(day[1]),
                                   IF op = <<>> THEN <<"C", "X", " ", "8", "8">>
                                   ELSE op \o <<" ", "7">>>>)
    IN  kept[Len(df)]

\* C24: _normalize drops exactly the rows whose FlightDate does not parse and
\* emits one row, in input order, for every other row; and an item handed to
\* an adapter's _parse_item is emitted as a record whatever its flight id,
\* time or status: it is neither skipped nor lost to an exception.
C24_DroppedOnlyForFlightDate ==
    /\ (bulk.pc \notin {"idle", "call"} /\ bulk.fn = "_normalize") =>
          /\ bulk.pc = "returned"
          /\ [i \in 1..Len(bulk.rows) |->
                 <<bulk.rows[i].date, bulk.rows[i].operating_flight_no>>] = KeptRows(bulk.df)
    /\ (rec.pc # "idle" /\ Parsed) => rec.pc = "raw"

\* C29: a transport error while downloading a month ends the run, which
\* writes no output: a run that met one exits with an error and has written
\* nothing.
C29_FailedMonthAbortsRun ==
    (usd.pc = "exited" /\ \E mo \in 1..Len(usd.answers) :
                              usd.answers[mo].kind \in {"timeout", "http_error"}) =>
        usd.written = <<>> /\ usd.exit # 0

(***************************************************************************)
(* Properties of the dump scripts                                          *)
(***************************************************************************)
\* The records the adapter returned for the fetch of date i in one direction
\* and class; nothing when the run made no such fetch.
FetchedFor(i, arrival, cargo) ==
    LET at == {j \in 1..Len(dhk.jobs) : dhk.jobs[j] = <<i, arrival, cargo>>}
    IN  IF at = {} THEN <<>> ELSE dhk.answers[CHOOSE j \in at : TRUE].raw

\* The records of dates 0..n-1, each date's fetches in the order `fetches` of
\* (arrival, cargo) pairs.
RECURSIVE InFetchOrder(_, _)
InFetchOrder(n, fetches) ==
    IF n = 0 THEN <<>>
    ELSE InFetchOrder(n - 1, fetches)
             \o FetchedFor(n - 1, fetches[1][1], fetches[1][2])
             \o FetchedFor(n - 1, fetches[2][1], fetches[2][2])
             \o FetchedFor(n - 1, fetches[3][1], fetches[3][2])
             \o FetchedFor(n - 1, fetches[4][1], fetches[4][2])

\* C25 as stated: whatever order the fetches complete in, the records handed
\* to conversion are ordered by date, then departures before arrivals, then
\* passenger before cargo, each fetch's records contiguous and in the
\* adapter's order.
C25_DirectionThenClass ==
    dhk.pc = "reassembled" =>
        dhk.all_raw = InFetchOrder(dhk.n, <<<<FALSE, FALSE>>, <<FALSE, TRUE>>,
                                            <<TRUE, FALSE>>, <<TRUE, TRUE>>>>)

\* C25, amended: whatever order the fetches complete in, the records handed
\* to conversion are ordered by date, then passenger before cargo, then
\* departures before arrivals, each fetch's records contiguous and in the
\* adapter's order; a fetch that raised ends the run with no records handed on.
C25_CanonicalOrder ==
    /\ dhk.pc = "reassembled" =>
          /\ dhk.all_raw = InFetchOrder(dhk.n, <<<<FALSE, FALSE>>, <<TRUE, FALSE>>,
                                                 <<FALSE, TRUE>>, <<TRUE, TRUE>>>>)
          /\ \A j \in 1..Len(dhk.jobs) : dhk.answers[j].raised = None
    /\ dhk.pc = "raised" => dhk.all_raw = <<>> /\ dhk.raised = "Timeout"

\* A run with cargo over two dates whose futures were handed over out of the
\* order of submission and whose fetches returned records.
C25_Witness ==
    /\ dhk.pc = "reassembled" /\ dhk.overtaken /\ dhk.include_cargo /\ dhk.n >= 2
    /\ Len(dhk.all_raw) >= 4

RowsOf(rows, d) == SelectSeq(rows, LAMBDA r : r.date = d)

====
